---- MODULE Spec2Model ----
(***************************************************************************)
(* Model of the Research_tools utility library.                            *)
(*                                                                         *)
(*   - tools/parallelization.py   CpuParallel (process-pool map helper)    *)
(*   - research_tools/in_out.py, tools/in_out.py   load / save dispatch    *)
(*   - research_tools/conversions.py, personal_tools/conversions.py        *)
(*   - research_tools/utils.py, personal_tools/utils.py  reduce_df_size    *)
(*   - research_tools/math.py   snr_dB_sum                                 *)
(*   - research_tools/utils.py  update_default_dict, the default dicts     *)
(*   - tools/folder_structure.py, personal_tools/folder_structure.py       *)
(*   - research_tools/progress_bar.py   add_task / remove_task             *)
(*   - research_tools/plot.py   get_list_markers / get_list_line_styles    *)
(*                                                                         *)
(* Each subsystem has its own specification (SpecPar, SpecIO, ...); the    *)
(* variables of the other subsystems are held at their initial value.      *)
(***************************************************************************)
EXTENDS Integers, Sequences, FiniteSets, TLC

VARIABLES
    \* ---- CpuParallel (tools/parallelization.py)
    numCores,     \* CpuParallel._NUM_CORES
    pc,           \* position of the caller inside run_parallelization
    args,         \* the args of the current / last call: the kind of each element
    maxWorkers,   \* max_workers of the executor of the current call
    future,       \* the local variable `future`: 0 while unbound, else a task id
    futureList,   \* future_list: task ids, in append order
    tasks,        \* the work items of the executor, in submission order
    overtaken,    \* a task finished while a task submitted before it had not
    cursor,       \* index of the element the running for-loop is at
    results,      \* the local list `results`
    printed,      \* what the last call printed: task ids (line 70), or the
                  \* numbers of the message of set_num_cores (line 28)
    pendingExc,   \* exception raised inside the with-block, not yet propagated
    outcome,      \* how the last call ended for the caller
    \* ---- load / save (research_tools/in_out.py, tools/in_out.py)
    ioPath,       \* the file_path argument, a string
    ioCall,       \* <<package, function>> of the call made, <<>> before it
    ioCodec,      \* the branch the call took: a codec, or "TypeError"
    ioFile,       \* what the call did to the file: "none", "read" or "written"
    \* ---- wavelength / frequency conversions (conversions.py)
    cvIn,         \* the argument: a float or an ndarray of floats
    cvCall,       \* the calls made so far: <<package, function>>
    cvOut,        \* what each call made so far returned, or the error it raised
    \* ---- binary_to_hex / hex_to_binary (research_tools/conversions.py)
    hxStr,        \* the first argument, then what each call made so far returned
    hxOps,        \* the calls made so far: the function and its same_length
    \* ---- reduce_df_size (research_tools/utils.py, personal_tools/utils.py)
    df,           \* input_df: its columns, each a dtype and the values of the rows
    dfOrig,       \* the dataframe as it was handed to reduce_df_size
    dfCall,       \* the package whose reduce_df_size was called, "none" before
    \* ---- dB conversions (conversions.py) and snr_dB_sum (research_tools/math.py)
    dbIn,         \* the argument of the first call
    dbOps,        \* the calls made so far: <<package, function>>
    dbOut,        \* what each call made so far returned or raised
    \* ---- default parameter dicts (research_tools/in_out.py, plot.py, utils.py)
    heap,         \* the dict objects alive: object -> its keys and values
    ddCall,       \* the last save / load / set_legend call and what it passed on
    \* ---- FolderStructure (tools/folder_structure.py, personal_tools/folder_structure.py)
    fsPkg,        \* the package FolderStructure was imported from
    RESULTS,      \* FolderStructure.RESULTS, a path: the sequence of its parts
    FIGURES,      \* FolderStructure.FIGURES
    folders,      \* the folders that exist on disk
    fsCalls,      \* the calls made so far, in order: the name of each method
    \* ---- the project folder search at import (folder_structure.py lines 10-21)
    pjPkg,        \* the package whose folder_structure module is imported
    pjFiles,      \* the files in the working directory and in each folder above it
    pjCwd,        \* the working directory, a path: the sequence of its parts
    actual_path,  \* the folder the loop is at (project_path in tools)
    project_path, \* the folder found, <<"None">> while personal_tools has none
    pjPc,         \* where the import is: "loop", "after", "imported", "IOError"
    pjTurns,      \* the number of evaluations of the loop condition so far, modulo 2
    \* ---- progress bar (research_tools/progress_bar.py)
    pbTasks,      \* progress.tasks: the tasks on the bar, in creation order
    pbNextId,     \* the TaskID the next progress.add_task returns
    pbNested,     \* every removal so far removed the newest task on the bar
    pbLast,       \* the last call: the function, len(progress.tasks) before, the outcome
    \* ---- get_list_markers / get_list_line_styles (research_tools/plot.py)
    plCalls,      \* the calls made so far: the function and its argument
    plOut         \* what each call made so far returned

parVars == <<numCores, pc, args, maxWorkers, future, futureList, tasks,
             overtaken, cursor, results, printed, pendingExc, outcome>>

ioVars == <<ioPath, ioCall, ioCodec, ioFile>>

cvVars == <<cvIn, cvCall, cvOut>>

hxVars == <<hxStr, hxOps>>

dfVars == <<df, dfOrig, dfCall>>

dbVars == <<dbIn, dbOps, dbOut>>

ddVars == <<heap, ddCall>>

fsVars == <<fsPkg, RESULTS, FIGURES, folders, fsCalls>>

pjVars == <<pjPkg, pjFiles, pjCwd, actual_path, project_path, pjPc, pjTurns>>

pbVars == <<pbTasks, pbNextId, pbNested, pbLast>>

plVars == <<plCalls, plOut>>

vars == <<parVars, ioVars, cvVars, hxVars, dfVars, dbVars, ddVars, fsVars, pjVars, pbVars, plVars>>

\* what the operations of one subsystem leave alone
notParVars == <<ioVars, cvVars, hxVars, dfVars, dbVars, ddVars, fsVars, pjVars, pbVars, plVars>>
notIoVars == <<parVars, cvVars, hxVars, dfVars, dbVars, ddVars, fsVars, pjVars, pbVars, plVars>>
notCvVars == <<parVars, ioVars, hxVars, dfVars, dbVars, ddVars, fsVars, pjVars, pbVars, plVars>>
notHxVars == <<parVars, ioVars, cvVars, dfVars, dbVars, ddVars, fsVars, pjVars, pbVars, plVars>>
notDfVars == <<parVars, ioVars, cvVars, hxVars, dbVars, ddVars, fsVars, pjVars, pbVars, plVars>>
notDbVars == <<parVars, ioVars, cvVars, hxVars, dfVars, ddVars, fsVars, pjVars, pbVars, plVars>>
notDdVars == <<parVars, ioVars, cvVars, hxVars, dfVars, dbVars, fsVars, pjVars, pbVars, plVars>>
notFsVars == <<parVars, ioVars, cvVars, hxVars, dfVars, dbVars, ddVars, pjVars, pbVars, plVars>>
notPjVars == <<parVars, ioVars, cvVars, hxVars, dfVars, dbVars, ddVars, fsVars, pbVars, plVars>>
notPbVars == <<parVars, ioVars, cvVars, hxVars, dfVars, dbVars, ddVars, fsVars, pjVars, plVars>>
notPlVars == <<parVars, ioVars, cvVars, hxVars, dfVars, dbVars, ddVars, fsVars, pjVars, pbVars>>

-----------------------------------------------------------------------------
(* Bounds of the model *)

\* cpu_count() of the machine the model runs on
CpuCount == 2

\* longest args list handed to run_parallelization
MaxArgs == 3

\* largest number of dot-separated parts of a file name
MaxSegs == 3

\* longest ndarray handed to a conversion
MaxArrayLen == 2

\* the elements of the ndarrays handed to wavelength2frequency and
\* frequency2wavelength are -MaxMagnitude .. MaxMagnitude, the floats handed
\* to them -MaxMagnitude .. MaxFrequency
MaxMagnitude == 2
MaxFrequency == 27

\* longest binary digit string handed to binary_to_hex
MaxBinLen == 8

\* longest hexadecimal digit string handed to hex_to_binary
MaxHexLen == 2

\* largest number of columns and of rows of a dataframe
MaxCols == 1
MaxRows == 2

\* the floats handed to the dB conversions and to snr_dB_sum are 1.0 .. MaxLin
MaxLin == 7

\* largest number of arguments of snr_dB_sum
MaxTerms == 2

\* largest number of sheets of a dict of dataframes handed to save
MaxSheets == 2

\* largest number of FolderStructure calls in a row
MaxFsCalls == 3

\* largest number of folders between the root and the working directory
MaxDepth == 3

\* largest number of tasks ever created on one progress bar
MaxTaskIds == 7

\* largest number of get_list_markers / get_list_line_styles calls in a row
MaxPlCalls == 2

-----------------------------------------------------------------------------
(* Helpers *)

Range(s) == {s[k] : k \in DOMAIN s}

\* the element of a one-element set; Only({f(v) : v \in {e}}) is f(e) with e
\* evaluated once, whatever number of times f uses it
Only(S) == CHOOSE v \in S : TRUE

Pow2(k) == 2 ^ k

\* the number of bits of n >= 0
BitLength(n) ==
    IF n = 0 THEN 0
    ELSE CHOOSE k \in 1..31 : Pow2(k - 1) <= n /\ (k = 31 \/ n < Pow2(k))

-----------------------------------------------------------------------------
(* binary64 arithmetic: the floats of Python and numpy (IEEE 754 doubles)  *)

\* A natural number of any size is a sequence of limbs, least significant
\* first, each in 0 .. LimbBase-1, without leading zero limbs; <<>> is 0.
LimbBase == 32768

RECURSIVE BTrim(_)
BTrim(a) ==
    IF a = <<>> THEN a
    ELSE IF a[Len(a)] = 0 THEN BTrim(SubSeq(a, 1, Len(a) - 1)) ELSE a

BLimb(a, i) == IF i <= Len(a) THEN a[i] ELSE 0

RECURSIVE BFromNat(_)
BFromNat(n) == IF n = 0 THEN <<>> ELSE <<n % LimbBase>> \o BFromNat(n \div LimbBase)

RECURSIVE BAddFrom(_, _, _, _)
BAddFrom(a, b, i, carry) ==
    IF i > Len(a) /\ i > Len(b)
      THEN IF carry = 0 THEN <<>> ELSE <<carry>>
      ELSE LET s == BLimb(a, i) + BLimb(b, i) + carry
           IN  <<s % LimbBase>> \o BAddFrom(a, b, i + 1, s \div LimbBase)

BAdd(a, b) == BAddFrom(a, b, 1, 0)

RECURSIVE BSubFrom(_, _, _, _)
BSubFrom(a, b, i, borrow) ==
    IF i > Len(a) THEN <<>>
    ELSE LET d == a[i] - BLimb(b, i) - borrow
         IN  <<IF d < 0 THEN d + LimbBase ELSE d>>
               \o BSubFrom(a, b, i + 1, IF d < 0 THEN 1 ELSE 0)

\* a - b, for a >= b
BSub(a, b) == BTrim(BSubFrom(a, b, 1, 0))

BLess(a, b) ==
    \/ Len(a) < Len(b)
    \/ /\ Len(a) = Len(b)
       /\ \E i \in DOMAIN a :
             /\ a[i] < b[i]
             /\ \A j \in (i + 1)..Len(a) : a[j] = b[j]

BLeq(a, b) == a = b \/ BLess(a, b)

RECURSIVE BMulSmallFrom(_, _, _, _)
BMulSmallFrom(a, k, i, carry) ==
    IF i > Len(a)
      THEN BFromNat(carry)
      ELSE LET p == a[i] * k + carry
           IN  <<p % LimbBase>> \o BMulSmallFrom(a, k, i + 1, p \div LimbBase)

\* a * k, for 0 <= k < LimbBase
BMulSmall(a, k) == BTrim(BMulSmallFrom(a, k, 1, 0))

BShiftLimbs(a, n) == IF a = <<>> THEN a ELSE [i \in 1..n |-> 0] \o a

RECURSIVE BMulFrom(_, _, _)
BMulFrom(a, b, i) ==
    IF i > Len(b) THEN <<>>
    ELSE BAdd(BShiftLimbs(BMulSmall(a, b[i]), i - 1), BMulFrom(a, b, i + 1))

BMul(a, b) == BMulFrom(a, b, 1)

\* a * 2^n
BShl(a, n) == BShiftLimbs(BMulSmall(a, Pow2(n % 15)), n \div 15)

\* a \div 2^n: whole limbs are dropped, then each limb gives its low bits to
\* the limb below
BShr(a, n) ==
    Only({LET k == Pow2(n % 15)
          IN  BTrim([i \in 1..Len(kept) |->
                        kept[i] \div k + (BLimb(kept, i + 1) % k) * (LimbBase \div k)])
          : kept \in {IF n \div 15 >= Len(a) THEN <<>>
                      ELSE SubSeq(a, n \div 15 + 1, Len(a))}})

BBitLen(a) == IF a = <<>> THEN 0 ELSE 15 * (Len(a) - 1) + BitLength(a[Len(a)])

\* bit i of a, bit 0 being the least significant
BBit(a, i) == (BLimb(a, i \div 15 + 1) \div Pow2(i % 15)) % 2

BOdd(a) == a # <<>> /\ a[1] % 2 = 1

\* one digit of the long division: the largest q with q * d <= r, for
\* r < d * LimbBase and a divisor whose top limb is at least LimbBase / 2;
\* the estimate from the top limbs is at most 2 too large
BQuotDigit(r, d) ==
    LET n    == Len(d)
        est  == (BLimb(r, n + 1) * LimbBase + BLimb(r, n)) \div d[n]
        qhat == IF est > LimbBase - 1 THEN LimbBase - 1 ELSE est
    IN  IF Len(r) < n THEN 0
        ELSE IF BLeq(BMulSmall(d, qhat), r) THEN qhat
        ELSE IF BLeq(BMulSmall(d, qhat - 1), r) THEN qhat - 1
        ELSE qhat - 2

\* long division of the limbs i, i-1, .., 1 of a by d, r being the remainder
\* of the limbs above i and q the quotient digits they gave; the remainder is
\* shifted back by sh bits at the end
RECURSIVE BDivModFrom(_, _, _, _, _, _)
BDivModFrom(a, d, i, r, q, sh) ==
    IF i = 0 THEN [quot |-> BTrim(q), rem |-> BShr(r, sh)]
    ELSE Only({BDivModFrom(a, d, i - 1, BSub(cur, BMulSmall(d, digit)),
                           <<digit>> \o q, sh)
               : cur \in {BTrim(<<a[i]>> \o r)},
                 digit \in {BQuotDigit(BTrim(<<a[i]>> \o r), d)}})

\* quotient and remainder of a by d > 0; both are shifted first so that the
\* top limb of the divisor is at least LimbBase / 2.  The top Len(d) - 1 limbs
\* of a are below d: the division starts with them as the remainder.
BDivMod(a, d) ==
    LET sh == 15 - BitLength(d[Len(d)])
    IN  Only({LET top == Len(nd) - 1
              IN  IF Len(na) <= top THEN [quot |-> <<>>, rem |-> BShr(na, sh)]
                  ELSE BDivModFrom(na, nd, Len(na) - top,
                                   BTrim(SubSeq(na, Len(na) - top + 1, Len(na))),
                                   <<>>, sh)
              : na \in {BShl(a, sh)}, nd \in {BShl(d, sh)}})

\* A double is [s, m, e]: the value (-1)^s * m * 2^e with m a natural number
\* of exactly 53 bits, or m = 0 (and s = 0, e = 0) for 0.0.  The values of the
\* model stay far from the subnormal and the overflow range.
F64Zero == [s |-> 0, m |-> <<>>, e |-> 0]

\* round to nearest, ties to even, of (-1)^s * n * 2^e
F64Round(s, num, e) ==
    Only({LET len == BBitLen(n)
          IN  IF n = <<>> THEN F64Zero
              ELSE IF len <= 53
                THEN [s |-> s, m |-> BShl(n, 53 - len), e |-> e - (53 - len)]
                ELSE LET sh   == len - 53
                         half == BShl(<<1>>, sh - 1)
                     IN  Only({LET r  == BSub(n, BShl(q, sh))
                                   up == BLess(half, r) \/ (r = half /\ BOdd(q))
                               IN  Only({IF BBitLen(q2) = 54
                                           THEN [s |-> s, m |-> BShr(q2, 1), e |-> e + sh + 1]
                                           ELSE [s |-> s, m |-> q2, e |-> e + sh]
                                         : q2 \in {IF up THEN BAdd(q, <<1>>) ELSE q}})
                               : q \in {BShr(n, sh)}})
          : n \in {num}})

\* the double of the integer n
F64FromInt(n) ==
    IF n < 0 THEN F64Round(1, BFromNat(-n), 0) ELSE F64Round(0, BFromNat(n), 0)

\* x * y
F64Mul(x, y) ==
    Only({IF a.m = <<>> \/ b.m = <<>> THEN F64Zero
          ELSE F64Round(IF a.s = b.s THEN 0 ELSE 1, BMul(a.m, b.m), a.e + b.e)
          : a \in {x}, b \in {y}})

\* inf, what numpy gives for a positive number divided by 0.0
F64Inf == [s |-> 0, m |-> <<>>, e |-> 1]

\* x / y for x >= 0 or y # 0: 57 more quotient bits than the mantissa holds,
\* and one sticky bit for a remainder that is not zero
F64Div(x, y) ==
    Only({IF b = F64Zero THEN F64Inf
          ELSE IF b = F64Inf \/ a = F64Zero THEN F64Zero
          ELSE Only({F64Round(IF a.s = b.s THEN 0 ELSE 1,
                              BAdd(BAdd(dm.quot, dm.quot),
                                   IF dm.rem = <<>> THEN <<>> ELSE <<1>>),
                              a.e - b.e - 58)
                     : dm \in {BDivMod(BShl(a.m, 57), b.m)}})
          : a \in {x}, b \in {y}})

\* x + y without rounding, for numbers (-1)^s * m * 2^e with m of any size
ExactSum(x, y) ==
    Only({LET e == IF a.e < b.e THEN a.e ELSE b.e
          IN  Only({IF a.s = b.s THEN [s |-> a.s, m |-> BAdd(na, nb), e |-> e]
                    ELSE IF BLess(na, nb) THEN [s |-> b.s, m |-> BSub(nb, na), e |-> e]
                    ELSE [s |-> a.s, m |-> BSub(na, nb), e |-> e]
                    : na \in {BShl(a.m, a.e - e)}, nb \in {BShl(b.m, b.e - e)}})
          : a \in {x}, b \in {y}})

\* x + y
F64Add(x, y) ==
    Only({IF a.m = <<>> THEN b
          ELSE IF b.m = <<>> THEN a
          ELSE Only({F64Round(sum.s, sum.m, sum.e) : sum \in {ExactSum(a, b)}})
          : a \in {x}, b \in {y}})

F64Neg(x) == IF x.m = <<>> THEN x ELSE [x EXCEPT !.s = 1 - x.s]

F64Sub(x, y) == F64Add(x, F64Neg(y))

\* x < y
F64Less(x, y) ==
    Only({LET e  == IF a.e < b.e THEN a.e ELSE b.e
              na == BShl(a.m, a.e - e)
              nb == BShl(b.m, b.e - e)
          IN  IF a.m = <<>> THEN b.m # <<>> /\ b.s = 0
              ELSE IF b.m = <<>> THEN a.s = 1
              ELSE IF a.s # b.s THEN a.s = 1
              ELSE IF a.s = 0 THEN BLess(na, nb) ELSE BLess(nb, na)
          : a \in {x}, b \in {y}})

\* |v| <= 10^-digits, for a number (-1)^s * m * 2^e with m of any size
AbsWithin(v, digits) ==
    LET RECURSIVE TimesPow10(_, _)
        TimesPow10(n, k) == IF k = 0 THEN n ELSE TimesPow10(BMulSmall(n, 10), k - 1)
        scaled == TimesPow10(v.m, digits)
    IN  IF v.e >= 0 THEN BLeq(BShl(scaled, v.e), <<1>>)
        ELSE BLeq(scaled, BShl(<<1>>, -v.e))

\* |r - x| <= x / 10^digits, for doubles r and x > 0, in exact arithmetic
RelClose(r, x, digits) ==
    LET e    == IF r.e < x.e THEN r.e ELSE x.e
        nr   == BShl(r.m, r.e - e)
        nx   == BShl(x.m, x.e - e)
        diff == IF BLess(nr, nx) THEN BSub(nx, nr) ELSE BSub(nr, nx)
        RECURSIVE TimesPow10(_, _)
        TimesPow10(n, k) == IF k = 0 THEN n ELSE TimesPow10(BMulSmall(n, 10), k - 1)
    IN  r.s = 0 /\ r.m # <<>> /\ BLeq(TimesPow10(diff, digits), nx)

-----------------------------------------------------------------------------
(* CpuParallel *)

\* the kinds of element an args list can hold: a dict, a tuple, anything else
ArgKinds == {"dict", "tuple", "other"}

ArgLists == UNION {[1..n -> ArgKinds] : n \in 0..MaxArgs}

\* a rounding that drops the fraction of q/4 towards minus infinity
PyRoundDown(q) == q \div 4

\* Python's round() of the float q/4: the nearest integer, a tie going to the
\* even one
PyRound(q) ==
    LET lo == q \div 4
        rest == q % 4
    IN  IF rest < 2 THEN lo
        ELSE IF rest > 2 THEN lo + 1
        ELSE IF lo % 2 = 0 THEN lo ELSE lo + 1

\* the values set_num_cores is called with: ints, floats (in quarters), others
NumCoresInputs ==
    [type : {"int"}, val : (-1)..(CpuCount + 1)]
      \cup [type : {"float"}, val : (-6)..(4 * CpuCount + 6)]
      \cup [type : {"str"}, val : {0}]

\* line 30: the argument is neither a float nor an int
InvalidType(v) == v.type \notin {"int", "float"}

\* lines 23-29: the number of cores after the validation of a float or an int
ValidatedNumCores(v) ==
    IF v.type = "float"
      THEN IF PyRound(v.val) = 0 THEN 1 ELSE PyRound(v.val)
      ELSE v.val

\* lines 34-38: the value _NUM_CORES has after set_num_cores was given n
StoredNumCores(n) == IF n > CpuCount THEN numCores ELSE n

\* line 28: the two numbers of the message a float argument makes
\* set_num_cores print, the rounded value and the argument (in quarters)
NumCoresMessage(v) ==
    IF v.type = "float" THEN <<ValidatedNumCores(v), v.val>> ELSE <<>>

\* set_num_cores(num_cores); the record of the last run_parallelization call
\* is dropped
SetNumCores(v) ==
    /\ pc = "idle"
    /\ IF InvalidType(v)
         THEN /\ outcome' = "TypeError"
              /\ UNCHANGED numCores
         ELSE /\ outcome' = "set"
              /\ numCores' = StoredNumCores(ValidatedNumCores(v))
    /\ printed' = NumCoresMessage(v)
    /\ args' = <<>>
    /\ maxWorkers' = 0
    /\ future' = 0
    /\ futureList' = <<>>
    /\ tasks' = <<>>
    /\ overtaken' = FALSE
    /\ cursor' = 1
    /\ results' = <<>>
    /\ UNCHANGED <<pc, pendingExc>>
    /\ UNCHANGED notParVars

\* get_num_cores()
get_num_cores == numCores

TaskStates(S) == {t \in DOMAIN tasks : tasks[t].state \in S}

Running == TaskStates({"running"})

Finished == TaskStates({"ok", "failed"})

\* run_parallelization is entered: the executor is built (line 54) and the
\* locals are initialised (line 55).  ProcessPoolExecutor raises ValueError
\* for max_workers <= 0.
Call(a) ==
    /\ UNCHANGED notParVars
    /\ pc = "idle"
    /\ args' = a
    /\ future' = 0
    /\ futureList' = <<>>
    /\ tasks' = <<>>
    /\ overtaken' = FALSE
    /\ results' = <<>>
    /\ printed' = <<>>
    /\ pendingExc' = "none"
    /\ cursor' = 1
    /\ IF numCores <= 0
         THEN /\ outcome' = "ValueError"
              /\ maxWorkers' = 0
              /\ pc' = "idle"
         ELSE /\ outcome' = "running"
              /\ maxWorkers' = numCores
              /\ pc' = "submit"
    /\ UNCHANGED numCores

\* the form in which line 58 / line 60 hand the element to the function
CallForm(kind) == IF kind = "dict" THEN "kwargs" ELSE "positional"

\* executor.submit: a new work item, pending
NewTask(k) == [arg |-> k, form |-> CallForm(args[k]), state |-> "pending"]

\* one iteration of the loop of lines 56-61
Submit ==
    /\ UNCHANGED notParVars
    /\ pc = "submit"
    /\ cursor <= Len(args)
    /\ IF args[cursor] \in {"dict", "tuple"}
         THEN /\ tasks' = Append(tasks, NewTask(cursor))
              /\ future' = Len(tasks) + 1
              /\ futureList' = Append(futureList, Len(tasks) + 1)
              /\ cursor' = cursor + 1
              /\ UNCHANGED <<pc, pendingExc>>
       ELSE IF future = 0
         \* neither branch bound `future`: line 61 raises UnboundLocalError
         THEN /\ pendingExc' = "UnboundLocalError"
              /\ pc' = "shutdown"
              /\ UNCHANGED <<tasks, future, futureList, cursor>>
         \* `future` still holds the future of an earlier element
         ELSE /\ futureList' = Append(futureList, future)
              /\ cursor' = cursor + 1
              /\ UNCHANGED <<tasks, future, pc, pendingExc>>
    /\ UNCHANGED <<numCores, args, maxWorkers, overtaken, results, printed, outcome>>

\* the loop of lines 56-61 is over: the with-block is left
SubmitDone ==
    /\ UNCHANGED notParVars
    /\ pc = "submit"
    /\ cursor > Len(args)
    /\ pc' = "shutdown"
    /\ UNCHANGED <<numCores, args, maxWorkers, future, futureList, tasks,
                   overtaken, cursor, results, printed, pendingExc, outcome>>

\* (faulty variant of WorkerFree) a pool that starts a process per work item
WorkerFreeUnbounded == TRUE

\* a worker process is free to take a work item: the pool has max_workers
\* processes, each executing one item at a time
WorkerFree == Cardinality(Running) < maxWorkers

\* a worker takes the oldest pending work item
WorkerStart(t) ==
    /\ UNCHANGED notParVars
    /\ t \in TaskStates({"pending"})
    /\ \A u \in TaskStates({"pending"}) : t <= u
    /\ WorkerFree
    /\ tasks' = [tasks EXCEPT ![t].state = "running"]
    /\ UNCHANGED <<numCores, pc, args, maxWorkers, future, futureList,
                   overtaken, cursor, results, printed, pendingExc, outcome>>

\* the function returns (ok) or raises (failed) in the worker
WorkerFinish(t, how) ==
    /\ UNCHANGED notParVars
    /\ t \in Running
    /\ tasks' = [tasks EXCEPT ![t].state = how]
    /\ overtaken' = (overtaken \/ \E u \in 1..(t - 1) : u \notin Finished)
    /\ UNCHANGED <<numCores, pc, args, maxWorkers, future, futureList,
                   cursor, results, printed, pendingExc, outcome>>

\* (faulty variant of ShutdownReady) shutdown(wait=False): the with-block is left at once
ShutdownNoWait == TRUE

\* ProcessPoolExecutor.__exit__ is shutdown(wait=True): it returns when every
\* work item has finished
ShutdownReady == Finished = DOMAIN tasks

\* end of the with-block (line 54): an exception raised inside it propagates
\* to the caller, else the collecting loop starts
Shutdown ==
    /\ UNCHANGED notParVars
    /\ pc = "shutdown"
    /\ ShutdownReady
    /\ IF pendingExc # "none"
         THEN /\ outcome' = pendingExc
              /\ pc' = "idle"
              /\ UNCHANGED cursor
         ELSE /\ pc' = "collect"
              /\ cursor' = 1
              /\ UNCHANGED outcome
    /\ UNCHANGED <<numCores, args, maxWorkers, future, futureList, tasks,
                   overtaken, results, printed, pendingExc>>

\* (faulty variant of FutureAt) the futures are taken from the end of the list
FutureAtReversed(k) == futureList[Len(futureList) + 1 - k]

\* the future the k-th iteration of the loop of line 66 looks at
FutureAt(k) == futureList[k]

\* one iteration of the loop of lines 66-70; future.result() blocks until the
\* work item has finished
Collect ==
    /\ UNCHANGED notParVars
    /\ pc = "collect"
    /\ cursor <= Len(futureList)
    /\ LET t == FutureAt(cursor)
       IN  /\ t \in Finished
           /\ IF tasks[t].state = "ok"
                THEN /\ results' = Append(results, tasks[t].arg)
                     /\ UNCHANGED printed
                ELSE /\ printed' = Append(printed, t)
                     /\ UNCHANGED results
    /\ cursor' = cursor + 1
    /\ UNCHANGED <<numCores, pc, args, maxWorkers, future, futureList, tasks,
                   overtaken, pendingExc, outcome>>

\* line 72
Return ==
    /\ UNCHANGED notParVars
    /\ pc = "collect"
    /\ cursor > Len(futureList)
    /\ pc' = "idle"
    /\ outcome' = "returned"
    /\ UNCHANGED <<numCores, args, maxWorkers, future, futureList, tasks,
                   overtaken, cursor, results, printed, pendingExc>>

InitCpuParallel ==
    /\ numCores = CpuCount
    /\ pc = "idle"
    /\ args = <<>>
    /\ maxWorkers = 0
    /\ future = 0
    /\ futureList = <<>>
    /\ tasks = <<>>
    /\ overtaken = FALSE
    /\ cursor = 1
    /\ results = <<>>
    /\ printed = <<>>
    /\ pendingExc = "none"
    /\ outcome = "none"

\* the steps of the calling process
Caller == Submit \/ SubmitDone \/ Shutdown \/ Collect \/ Return

\* the steps of the worker processes
Workers ==
    \E t \in DOMAIN tasks :
        \/ WorkerStart(t)
        \/ \E how \in {"ok", "failed"} : WorkerFinish(t, how)

StepPar ==
    \/ \E v \in NumCoresInputs : SetNumCores(v)
    \/ \E a \in ArgLists : Call(a)
    \/ Caller
    \/ Workers

-----------------------------------------------------------------------------
(* load / save: the dispatch on the file path *)

\* strings are sequences of characters
S_json == <<"j", "s", "o", "n">>
S_csv == <<"c", "s", "v">>
S_mat == <<"m", "a", "t">>
S_npy == <<"n", "p", "y">>
S_npz == <<"n", "p", "z">>
S_xlsx == <<"x", "l", "s", "x">>
S_xls == <<"x", "l", "s">>
S_ods == <<"o", "d", "s">>
S_txt == <<"t", "x", "t">>
S_pickle == <<"p", "i", "c", "k", "l", "e">>
S_data == <<"d", "a", "t", "a">>
S_bak == <<"b", "a", "k">>

Dot(w) == <<".">> \o w

\* the words the file paths of the model are built from
Words == {S_data, S_json, S_csv, S_txt, S_bak}

RECURSIVE JoinDot(_)
\* the parts joined by "."
JoinDot(parts) ==
    IF Len(parts) = 1 THEN parts[1]
    ELSE parts[1] \o Dot(JoinDot(Tail(parts)))

FileNames == {JoinDot(w) : w \in UNION {[1..n -> Words] : n \in 1..MaxSegs}}

\* no directory, or one directory whose name has one or two parts
DirPrefixes ==
    {<<>>} \cup {JoinDot(w) \o <<"/">> : w \in UNION {[1..n -> Words] : n \in 1..2}}

\* the file paths load and save are called with
Paths == {d \o f : d \in DirPrefixes, f \in FileNames}

\* str.rfind(ch), 1-based: the last position of ch in s, 0 when there is none
LastIndexOf(s, ch) ==
    LET hits == {k \in DOMAIN s : s[k] = ch}
    IN  IF hits = {} THEN 0 ELSE CHOOSE k \in hits : \A h \in hits : h <= k

\* `sub in s` of Python strings
Contains(s, sub) ==
    \E k \in 0..(Len(s) - Len(sub)) : SubSeq(s, k + 1, k + Len(sub)) = sub

\* pathlib: Path.name, the part after the last "/"
PathName(s) == SubSeq(s, LastIndexOf(s, "/") + 1, Len(s))

\* pathlib: Path.suffix, the part of the name from its last "." on, empty
\* when the name has no "." or only a leading or a trailing one
PathSuffix(s) ==
    LET name == PathName(s)
        i    == LastIndexOf(name, ".") - 1
    IN  IF 0 < i /\ i < Len(name) - 1
          THEN SubSeq(name, i + 1, Len(name))
          ELSE <<>>

\* research_tools load (lines 46-87) and save (lines 107-142): the branch of
\* the if-chain on file_path.suffix
ResearchBranch(s) ==
    LET suffix == PathSuffix(s)
    IN  IF suffix \in {Dot(S_json)} THEN "json"
        ELSE IF suffix \in {Dot(S_csv)} THEN "csv"
        ELSE IF suffix \in {Dot(S_mat)} THEN "mat"
        ELSE IF suffix \in {Dot(S_npy), Dot(S_npz)} THEN "npy"
        ELSE IF suffix \in {Dot(S_xlsx), Dot(S_xls), Dot(S_ods)} THEN "excel"
        ELSE IF suffix \in {Dot(S_txt)} THEN "txt"
        ELSE IF suffix \in {Dot(S_pickle)} THEN "pickle"
        ELSE "TypeError"

\* tools load (lines 36-56) and save (lines 77-94): the branch of the if-chain
\* on `'.ext' in str(file_path)`
ToolsBranch(s) ==
    IF Contains(s, Dot(S_json)) THEN "json"
    ELSE IF Contains(s, Dot(S_csv)) THEN "csv"
    ELSE IF Contains(s, Dot(S_mat)) THEN "mat"
    ELSE IF Contains(s, Dot(S_npy)) \/ Contains(s, Dot(S_npz)) THEN "npy"
    ELSE "TypeError"

\* every branch but the last opens the file
FileEffect(branch, effect) == IF branch = "TypeError" THEN "none" ELSE effect

\* research_tools.in_out.load(file_path)
LoadResearch ==
    /\ UNCHANGED notIoVars
    /\ ioCall = <<>>
    /\ ioCall' = <<"research_tools", "load">>
    /\ ioCodec' = ResearchBranch(ioPath)
    /\ ioFile' = FileEffect(ResearchBranch(ioPath), "read")
    /\ UNCHANGED ioPath

\* research_tools.in_out.save(file_path, data)
SaveResearch ==
    /\ UNCHANGED notIoVars
    /\ ioCall = <<>>
    /\ ioCall' = <<"research_tools", "save">>
    /\ ioCodec' = ResearchBranch(ioPath)
    /\ ioFile' = FileEffect(ResearchBranch(ioPath), "written")
    /\ UNCHANGED ioPath

\* tools.in_out.load(file_path)
LoadTools ==
    /\ UNCHANGED notIoVars
    /\ ioCall = <<>>
    /\ ioCall' = <<"tools", "load">>
    /\ ioCodec' = ToolsBranch(ioPath)
    /\ ioFile' = FileEffect(ToolsBranch(ioPath), "read")
    /\ UNCHANGED ioPath

\* tools.in_out.save(file_path, data)
SaveTools ==
    /\ UNCHANGED notIoVars
    /\ ioCall = <<>>
    /\ ioCall' = <<"tools", "save">>
    /\ ioCodec' = ToolsBranch(ioPath)
    /\ ioFile' = FileEffect(ToolsBranch(ioPath), "written")
    /\ UNCHANGED ioPath

\* no load / save call is in progress
IdleIO ==
    /\ ioPath = <<>>
    /\ ioCall = <<>>
    /\ ioCodec = "none"
    /\ ioFile = "none"

InitLoadSave ==
    /\ ioPath \in Paths
    /\ ioCall = <<>>
    /\ ioCodec = "none"
    /\ ioFile = "none"

StepIO == LoadResearch \/ SaveResearch \/ LoadTools \/ SaveTools

-----------------------------------------------------------------------------
(* wavelength2frequency / frequency2wavelength *)

\* scipy.constants.c, the speed of light in m/s
c == 299792458

\* the arguments: a float, or an ndarray (a sequence of floats)
ConvValues == {F64FromInt(k) : k \in (-MaxMagnitude)..MaxMagnitude}

ConvFloats == {F64FromInt(k) : k \in (-MaxMagnitude)..MaxFrequency}

ConvInputs ==
    [kind : {"float"}, val : ConvFloats]
      \cup [kind : {"ndarray"},
            val : UNION {[1..n -> ConvValues] : n \in 1..MaxArrayLen}]

\* the elements of an argument
Elements(x) == IF x.kind = "float" THEN {x.val} ELSE Range(x.val)

\* a / b of floats; numpy gives inf for a positive a and b = 0 (the
\* divide-by-zero warning is switched off by seterr)
Quot(a, b) == F64Div(a, b)

\* the call returned c / x, element by element for an ndarray
CDividedBy(x) ==
    [raised |-> "none",
     kind   |-> x.kind,
     val    |-> IF x.kind = "float" THEN <<Quot(F64FromInt(c), x.val)>>
                ELSE [k \in DOMAIN x.val |-> Quot(F64FromInt(c), x.val[k])]]

\* the call raised an error
Raised(err) == [raised |-> err, kind |-> "none", val |-> <<>>]

\* (faulty variant of CheckedQuotient) the quotient is kept in single precision
CheckedQuotientSingle(x) ==
    LET Single(q) == F64Round(q.s, BShr(q.m, 29), q.e + 29)
        full == CDividedBy(x)
    IN  IF \E e \in Elements(x) : e = F64Zero THEN Raised("ZeroDivisionError")
        ELSE IF \E e \in Elements(x) : F64Less(e, F64Zero) THEN Raised("ValueError")
        ELSE [full EXCEPT !.val = [k \in DOMAIN full.val |-> Single(full.val[k])]]

\* research_tools wavelength2frequency (lines 73-78) and frequency2wavelength
\* (lines 88-93): the same checks, then c / argument
CheckedQuotient(x) ==
    IF \E e \in Elements(x) : e = F64Zero THEN Raised("ZeroDivisionError")
    ELSE IF \E e \in Elements(x) : F64Less(e, F64Zero) THEN Raised("ValueError")
    ELSE CDividedBy(x)

\* personal_tools wavelength2frequency (line 30) and frequency2wavelength
\* (line 34): scipy's lambda2nu and nu2lambda, c / asanyarray(argument)
ScipyQuotient(x) == CDividedBy(x)

\* what a call returned, as the argument of the next call
AsArgument(out) ==
    [kind |-> out.kind,
     val  |-> IF out.kind = "float" THEN out.val[1] ELSE out.val]

\* the argument of call number k: the input, then what the call before returned
CvArgOf(k) == IF k = 1 THEN cvIn ELSE AsArgument(cvOut[k - 1])

\* a first call, or the call of the other function of the same package on
\* what the first call returned
CvMayCall(pkg, fn) ==
    \/ cvCall = <<>>
    \/ /\ Len(cvCall) = 1
       /\ cvCall[1][1] = pkg
       /\ cvCall[1][2] # fn
       /\ cvOut[1].raised = "none"

CvCalled(pkg, fn, res) ==
    /\ cvCall' = Append(cvCall, <<pkg, fn>>)
    /\ cvOut' = Append(cvOut, res)
    /\ UNCHANGED cvIn

\* research_tools.conversions.wavelength2frequency(wavelength)
W2FResearch ==
    /\ CvMayCall("research_tools", "wavelength2frequency")
    /\ CvCalled("research_tools", "wavelength2frequency",
                CheckedQuotient(CvArgOf(Len(cvCall) + 1)))
    /\ UNCHANGED notCvVars

\* research_tools.conversions.frequency2wavelength(freq)
F2WResearch ==
    /\ CvMayCall("research_tools", "frequency2wavelength")
    /\ CvCalled("research_tools", "frequency2wavelength",
                CheckedQuotient(CvArgOf(Len(cvCall) + 1)))
    /\ UNCHANGED notCvVars

\* personal_tools.conversions.wavelength2frequency(wavelength)
W2FPersonal ==
    /\ CvMayCall("personal_tools", "wavelength2frequency")
    /\ CvCalled("personal_tools", "wavelength2frequency",
                ScipyQuotient(CvArgOf(Len(cvCall) + 1)))
    /\ UNCHANGED notCvVars

\* personal_tools.conversions.frequency2wavelength(freq)
F2WPersonal ==
    /\ CvMayCall("personal_tools", "frequency2wavelength")
    /\ CvCalled("personal_tools", "frequency2wavelength",
                ScipyQuotient(CvArgOf(Len(cvCall) + 1)))
    /\ UNCHANGED notCvVars

\* no conversion call is in progress
IdleCv ==
    /\ cvIn = [kind |-> "float", val |-> F64FromInt(1)]
    /\ cvCall = <<>>
    /\ cvOut = <<>>

InitConversions ==
    /\ cvIn \in ConvInputs
    /\ cvCall = <<>>
    /\ cvOut = <<>>

StepCv == W2FResearch \/ F2WResearch \/ W2FPersonal \/ F2WPersonal

-----------------------------------------------------------------------------
(* binary_to_hex / hex_to_binary *)

\* the digits hex() and bin() write, by value
LowerDigits ==
    <<"0", "1", "2", "3", "4", "5", "6", "7", "8", "9", "a", "b", "c", "d", "e", "f">>

\* the digits int() also reads
UpperDigits ==
    <<"0", "1", "2", "3", "4", "5", "6", "7", "8", "9", "A", "B", "C", "D", "E", "F">>

BinChars == {"0", "1"}

HexChars == Range(LowerDigits) \cup Range(UpperDigits)

\* the value of a digit
DigitValue(ch) ==
    (CHOOSE k \in 1..16 : LowerDigits[k] = ch \/ UpperDigits[k] = ch) - 1

RECURSIVE PyInt(_, _)
\* int(s, base) of a digit string
PyInt(s, base) ==
    IF s = <<>> THEN 0
    ELSE PyInt(SubSeq(s, 1, Len(s) - 1), base) * base + DigitValue(s[Len(s)])

RECURSIVE Digits(_, _)
\* hex(n)[2:] for base 16, bin(n)[2:] for base 2
Digits(n, base) ==
    IF n < base THEN <<LowerDigits[n + 1]>>
    ELSE Digits(n \div base, base) \o <<LowerDigits[(n % base) + 1]>>

\* str.zfill(width)
ZFill(s, width) ==
    IF Len(s) >= width THEN s
    ELSE [k \in 1..(width - Len(s)) |-> "0"] \o s

\* str.lower()
Lower(s) == [k \in DOMAIN s |-> LowerDigits[DigitValue(s[k]) + 1]]

\* (faulty variant of binary_to_hex) same_length is ignored: no padding
binary_to_hex_unpadded(binary_str, same_length) ==
    Digits(PyInt(binary_str, 2), 16)

\* (faulty variant of binary_to_hex) the digits beyond the width are cut off
binary_to_hex_truncated(binary_str, same_length) ==
    LET width   == Len(binary_str) \div 4
        hex_str == ZFill(Digits(PyInt(binary_str, 2), 16), width)
    IN  IF same_length /\ width >= 1
          THEN SubSeq(hex_str, Len(hex_str) - width + 1, Len(hex_str))
          ELSE hex_str

\* binary_to_hex(binary_str, same_length), lines 147-152
binary_to_hex(binary_str, same_length) ==
    LET decimal == PyInt(binary_str, 2)
        hex_str == Digits(decimal, 16)
    IN  IF same_length THEN ZFill(hex_str, Len(binary_str) \div 4) ELSE hex_str

\* (faulty variant of hex_to_binary) the width is one digit per hexadecimal digit
hex_to_binary_narrow(hex_str, same_length) ==
    LET binary_str == Digits(PyInt(hex_str, 16), 2)
    IN  IF same_length THEN ZFill(binary_str, Len(hex_str)) ELSE binary_str

\* hex_to_binary(hex_str, same_length), lines 164-169
hex_to_binary(hex_str, same_length) ==
    LET decimal    == PyInt(hex_str, 16)
        binary_str == Digits(decimal, 2)
    IN  IF same_length THEN ZFill(binary_str, Len(hex_str) * 4) ELSE binary_str

BinStrings == UNION {[1..n -> BinChars] : n \in 1..MaxBinLen}

HexStrings == UNION {[1..n -> HexChars] : n \in 1..MaxHexLen}

\* the string the next call is given
LastStr == hxStr[Len(hxStr)]

\* binary_to_hex is called: first on a binary digit string, or second on what
\* hex_to_binary returned
BinaryToHex(same_length) ==
    /\ \/ hxOps = <<>> /\ LastStr \in BinStrings
       \/ Len(hxOps) = 1 /\ hxOps[1].fn = "hex_to_binary"
    /\ hxStr' = Append(hxStr, binary_to_hex(LastStr, same_length))
    /\ hxOps' = Append(hxOps, [fn |-> "binary_to_hex", same |-> same_length])
    /\ UNCHANGED notHxVars

\* hex_to_binary is called: first on a hexadecimal digit string, or second on
\* what binary_to_hex returned
HexToBinary(same_length) ==
    /\ \/ hxOps = <<>> /\ LastStr \in HexStrings
       \/ Len(hxOps) = 1 /\ hxOps[1].fn = "binary_to_hex"
    /\ hxStr' = Append(hxStr, hex_to_binary(LastStr, same_length))
    /\ hxOps' = Append(hxOps, [fn |-> "hex_to_binary", same |-> same_length])
    /\ UNCHANGED notHxVars

\* no binary / hex conversion is in progress
IdleHx ==
    /\ hxStr = <<<<"0">>>>
    /\ hxOps = <<>>

InitBinHex ==
    /\ hxStr \in {<<x>> : x \in BinStrings \cup HexStrings}
    /\ hxOps = <<>>

StepHx == \E same_length \in BOOLEAN : BinaryToHex(same_length) \/ HexToBinary(same_length)

-----------------------------------------------------------------------------
(* reduce_df_size *)

\* An int64 value is its 64 bits in two's complement, as four 16-bit limbs,
\* the lowest first.
IntValues ==
    {<<255, 0, 0, 0>>,                   \* 255
     <<256, 0, 0, 0>>,                   \* 256
     <<0, 0, 1, 0>>,                     \* 2^32
     <<65535, 65535, 65535, 65535>>,     \* -1
     <<65407, 65535, 65535, 65535>>,     \* -129
     <<65535, 32767, 65535, 65535>>}     \* -2^31 - 1

\* A float64 value is n * 2^-12 for the integer n it is modelled by; every
\* such n below 2^27 is a float64.
FloatValues ==
    {0,
     16777217,      \* 2^24 + 1: 4096 + 2^-12, half way between two float32
     33554434,      \* 2^25 + 2: 8192 + 2^-11, half way between two float32
     67108867}      \* 2^26 + 3: 16384 + 3 * 2^-12

\* the values of an object column
Labels == {"a", "b"}

ColumnsOf(dtype, values) ==
    [dtype : {dtype}, vals : UNION {[1..n -> values] : n \in 0..MaxRows}]

\* the columns a dataframe handed to reduce_df_size can have
Columns ==
    ColumnsOf("object", Labels) \cup ColumnsOf("int64", IntValues)
        \cup ColumnsOf("float64", FloatValues)

DataFrames == UNION {[1..n -> Columns] : n \in 1..MaxCols}

\* the value is below zero: its top bit is set
IsNegative(v) == v[4] >= 32768

\* np.typecodes["Integer"] and ["UnsignedInteger"], the smallest first, as
\* to_numeric walks them
SignedTypes == <<"int8", "int16", "int32", "int64">>
UnsignedTypes == <<"uint8", "uint16", "uint32", "uint64">>

IsUnsigned(t) == t \in Range(UnsignedTypes)

\* itemsize of an integer dtype
ItemSize(t) ==
    IF t \in {"int8", "uint8"} THEN 1
    ELSE IF t \in {"int16", "uint16"} THEN 2
    ELSE IF t \in {"int32", "uint32"} THEN 4
    ELSE 8

\* ndarray.astype(t) of an int64 value: the low bits are kept; the result is
\* given as the 64 bits of the value the kept bits stand for in t
AsType(v, t) ==
    LET ext == IF IsUnsigned(t) THEN 0 ELSE 65535
    IN  IF ItemSize(t) = 1
          THEN LET b == v[1] % 256
               IN  IF ~IsUnsigned(t) /\ b >= 128
                     THEN <<65280 + b, ext, ext, ext>>
                     ELSE <<b, 0, 0, 0>>
        ELSE IF ItemSize(t) = 2
          THEN IF ~IsUnsigned(t) /\ v[1] >= 32768
                 THEN <<v[1], ext, ext, ext>>
                 ELSE <<v[1], 0, 0, 0>>
        ELSE IF ItemSize(t) = 4
          THEN IF ~IsUnsigned(t) /\ v[2] >= 32768
                 THEN <<v[1], v[2], ext, ext>>
                 ELSE <<v[1], v[2], 0, 0>>
        ELSE v

\* (faulty variant of IntClose) the narrowed values are not compared with the column
IntCloseUnchecked(v, t) == TRUE

\* np.allclose(new_result, result, rtol=0) of maybe_downcast_numeric for one
\* integer value: the narrowed value is the value (they differ by 0 or by a
\* multiple of 256, never by 1e-8 or less)
IntClose(v, t) == AsType(v, t) = v /\ ~(IsUnsigned(t) /\ IsNegative(v))

\* to_numeric(column, downcast=...) of an int64 column: the first dtype of the
\* list that every narrowed value is close to the value in; an empty column
\* takes the first
DowncastInt(col, types) ==
    LET fits(t) == \A k \in DOMAIN col.vals : IntClose(col.vals[k], t)
        first   == CHOOSE i \in DOMAIN types :
                      /\ fits(types[i]) \/ i = Len(types)
                      /\ \A j \in 1..(i - 1) : ~fits(types[j])
    IN  [dtype |-> types[first],
         vals  |-> [k \in DOMAIN col.vals |-> AsType(col.vals[k], types[first])]]

\* astype(float32) of a float64 value: 24 significant bits are kept, rounded
\* to nearest, ties to even
RoundToFloat32(n) ==
    IF BitLength(n) <= 24 THEN n
    ELSE LET unit == Pow2(BitLength(n) - 24)
             q    == n \div unit
             r    == n % unit
         IN  IF 2 * r > unit \/ (2 * r = unit /\ q % 2 = 1)
               THEN (q + 1) * unit
               ELSE q * unit

Abs(x) == IF x < 0 THEN -x ELSE x

\* np.allclose(new_result, result, rtol=0.0, atol=5e-4) of
\* maybe_downcast_numeric for one value: |d| * 2^-12 <= 5 * 10^-4
FloatClose(n) == Abs(RoundToFloat32(n) - n) * 10000 <= 5 * 4096

\* to_numeric(column, downcast='float'): float32 when every value stays
\* close, else the column as it is
DowncastFloat(col) ==
    IF \A k \in DOMAIN col.vals : FloatClose(col.vals[k])
      THEN [dtype |-> "float32",
            vals  |-> [k \in DOMAIN col.vals |-> RoundToFloat32(col.vals[k])]]
      ELSE col

\* Series.describe()['freq']: how often the most frequent value occurs
Freq(col) ==
    LET n(x) == Cardinality({k \in DOMAIN col.vals : col.vals[k] = x})
    IN  CHOOSE m \in 0..Len(col.vals) :
            /\ \A x \in Range(col.vals) : n(x) <= m
            /\ \E x \in Range(col.vals) : n(x) = m

\* lines 82-85: an object column becomes a category column when its most
\* frequent value makes up more than FIXED_PERCENTAGE_CATEGORY = 0.1 of it;
\* for a column without rows freq is NaN and the test is false
ToCategory(col) ==
    IF Len(col.vals) > 0 /\ Freq(col) * 10 > Len(col.vals)
      THEN [col EXCEPT !.dtype = "category"]
      ELSE col

\* np.min of the column is below zero (NaN, of an empty column, is not)
MinNegative(col) == \E k \in DOMAIN col.vals : IsNegative(col.vals[k])

\* (faulty variant of DowncastIntColumn) downcast='signed' whatever the minimum is
DowncastIntColumnSigned(col) == DowncastInt(col, SignedTypes)

\* lines 88-93
DowncastIntColumn(col) ==
    IF MinNegative(col) THEN DowncastInt(col, SignedTypes)
    ELSE DowncastInt(col, UnsignedTypes)

\* what the three loops of reduce_df_size make of a column: each selects the
\* columns of one dtype
ReduceColumn(col) ==
    IF col.dtype = "object" THEN ToCategory(col)
    ELSE IF col.dtype = "int64" THEN DowncastIntColumn(col)
    ELSE IF col.dtype = "float64" THEN DowncastFloat(col)
    ELSE col

\* reduce_df_size(input_df), lines 82-100
reduce_df_size(input_df) == [k \in DOMAIN input_df |-> ReduceColumn(input_df[k])]

\* research_tools.utils.reduce_df_size(df)
ReduceResearch ==
    /\ UNCHANGED notDfVars
    /\ dfCall = "none"
    /\ dfCall' = "research_tools"
    /\ df' = reduce_df_size(df)
    /\ UNCHANGED dfOrig

\* personal_tools.utils.reduce_df_size(df): the same three loops
ReducePersonal ==
    /\ UNCHANGED notDfVars
    /\ dfCall = "none"
    /\ dfCall' = "personal_tools"
    /\ df' = reduce_df_size(df)
    /\ UNCHANGED dfOrig

\* no dataframe is being reduced
IdleDf ==
    /\ df = <<>>
    /\ dfOrig = <<>>
    /\ dfCall = "none"

InitDataFrame ==
    /\ df \in DataFrames
    /\ dfOrig = df
    /\ dfCall = "none"

StepDf == ReduceResearch \/ ReducePersonal

\* log10(x): the doubles next below and next above the exact value
\* (the same double twice when the exact value is a double)
Log10Table ==
    {
      [x |-> [s |-> 0, m |-> <<23897, 6133, 28069, 214>>, e |-> -54],
       down |-> [s |-> 1, m |-> <<28568, 24530, 2820, 193>>, e |-> -54],
       up |-> [s |-> 1, m |-> <<28567, 24530, 2820, 193>>, e |-> -54]],   \* 0.419641803931389 -> -0.3771212547196625 .. -0.37712125471966246
      [x |-> [s |-> 0, m |-> <<23898, 6133, 28069, 214>>, e |-> -54],
       down |-> [s |-> 1, m |-> <<28567, 24530, 2820, 193>>, e |-> -54],
       up |-> [s |-> 1, m |-> <<28566, 24530, 2820, 193>>, e |-> -54]],   \* 0.41964180393138906 -> -0.37712125471966246 .. -0.3771212547196624
      [x |-> [s |-> 0, m |-> <<5516, 18715, 8002, 135>>, e |-> -53],
       down |-> [s |-> 1, m |-> <<2353, 4870, 29035, 141>>, e |-> -54],
       up |-> [s |-> 1, m |-> <<2352, 4870, 29035, 141>>, e |-> -54]],   \* 0.5282977308203711 -> -0.2771212547196625 .. -0.2771212547196624
      [x |-> [s |-> 0, m |-> <<9731, 29176, 4667, 161>>, e |-> -53],
       down |-> [s |-> 1, m |-> <<10035, 10468, 28007, 205>>, e |-> -55],
       up |-> [s |-> 1, m |-> <<10034, 10468, 28007, 205>>, e |-> -55]],   \* 0.6294627058970835 -> -0.20102999566398125 .. -0.20102999566398122
      [x |-> [s |-> 0, m |-> <<9732, 29176, 4667, 161>>, e |-> -53],
       down |-> [s |-> 1, m |-> <<10033, 10468, 28007, 205>>, e |-> -55],
       up |-> [s |-> 1, m |-> <<10032, 10468, 28007, 205>>, e |-> -55]],   \* 0.6294627058970836 -> -0.2010299956639812 .. -0.20102999566398116
      [x |-> [s |-> 0, m |-> <<31519, 26404, 8597, 170>>, e |-> -53],
       down |-> [s |-> 1, m |-> <<17814, 3186, 12195, 181>>, e |-> -55],
       up |-> [s |-> 1, m |-> <<17813, 3186, 12195, 181>>, e |-> -55]],   \* 0.6650874383229598 -> -0.1771212547196625 .. -0.17712125471966247
      [x |-> [s |-> 0, m |-> <<31520, 26404, 8597, 170>>, e |-> -53],
       down |-> [s |-> 1, m |-> <<17811, 3186, 12195, 181>>, e |-> -55],
       up |-> [s |-> 1, m |-> <<17810, 3186, 12195, 181>>, e |-> -55]],   \* 0.6650874383229599 -> -0.17712125471966242 .. -0.1771212547196624
      [x |-> [s |-> 0, m |-> <<24658, 28072, 28387, 202>>, e |-> -53],
       down |-> [s |-> 1, m |-> <<13515, 7829, 29800, 206>>, e |-> -56],
       up |-> [s |-> 1, m |-> <<13514, 7829, 29800, 206>>, e |-> -56]],   \* 0.7924465962305567 -> -0.10102999566398123 .. -0.10102999566398121
      [x |-> [s |-> 0, m |-> <<4223, 17634, 11391, 214>>, e |-> -53],
       down |-> [s |-> 1, m |-> <<29069, 26033, 30943, 157>>, e |-> -56],
       up |-> [s |-> 1, m |-> <<29068, 26033, 30943, 157>>, e |-> -56]],   \* 0.8372954771698601 -> -0.07712125471966243 .. -0.07712125471966241
      [x |-> [s |-> 0, m |-> <<14510, 23223, 12896, 255>>, e |-> -53],
       down |-> [s |-> 1, m |-> <<19703, 22669, 117, 135>>, e |-> -62],
       up |-> [s |-> 1, m |-> <<19702, 22669, 117, 135>>, e |-> -62]],   \* 0.9976311574844396 -> -0.0010299956639812627 .. -0.0010299956639812625
      [x |-> [s |-> 0, m |-> <<14512, 23223, 12896, 255>>, e |-> -53],
       down |-> [s |-> 1, m |-> <<19258, 22669, 117, 135>>, e |-> -62],
       up |-> [s |-> 1, m |-> <<19257, 22669, 117, 135>>, e |-> -62]],   \* 0.9976311574844399 -> -0.0010299956639811662 .. -0.001029995663981166
      [x |-> [s |-> 0, m |-> <<0, 0, 0, 128>>, e |-> -52],
       down |-> [s |-> 0, m |-> <<>>, e |-> 0],
       up |-> [s |-> 0, m |-> <<>>, e |-> 0]],   \* 1.0 -> 0.0 .. 0.0
      [x |-> [s |-> 0, m |-> <<15586, 20088, 30272, 134>>, e |-> -52],
       down |-> [s |-> 0, m |-> <<8247, 13829, 13850, 187>>, e |-> -58],
       up |-> [s |-> 0, m |-> <<8248, 13829, 13850, 187>>, e |-> -58]],   \* 1.0540925533894598 -> 0.02287874528033759 .. 0.022878745280337592
      [x |-> [s |-> 0, m |-> <<19551, 21417, 24927, 160>>, e |-> -52],
       down |-> [s |-> 0, m |-> <<32362, 18384, 22628, 202>>, e |-> -56],
       up |-> [s |-> 0, m |-> <<32363, 18384, 22628, 202>>, e |-> -56]],   \* 1.25594321575479 -> 0.0989700043360188 .. 0.09897000433601881
      [x |-> [s |-> 0, m |-> <<19552, 21417, 24927, 160>>, e |-> -52],
       down |-> [s |-> 0, m |-> <<32368, 18384, 22628, 202>>, e |-> -56],
       up |-> [s |-> 0, m |-> <<32369, 18384, 22628, 202>>, e |-> -56]],   \* 1.2559432157547903 -> 0.09897000433601888 .. 0.0989700043360189
      [x |-> [s |-> 0, m |-> <<9731, 29176, 4667, 161>>, e |-> -52],
       down |-> [s |-> 0, m |-> <<6549, 13107, 26214, 204>>, e |-> -56],
       up |-> [s |-> 0, m |-> <<6550, 13107, 26214, 204>>, e |-> -56]],   \* 1.258925411794167 -> 0.09999999999999994 .. 0.09999999999999995
      [x |-> [s |-> 0, m |-> <<9732, 29176, 4667, 161>>, e |-> -52],
       down |-> [s |-> 0, m |-> <<6555, 13107, 26214, 204>>, e |-> -56],
       up |-> [s |-> 0, m |-> <<6556, 13107, 26214, 204>>, e |-> -56]],   \* 1.2589254117941673 -> 0.10000000000000002 .. 0.10000000000000003
      [x |-> [s |-> 0, m |-> <<29674, 21613, 28149, 169>>, e |-> -52],
       down |-> [s |-> 0, m |-> <<16803, 180, 21485, 251>>, e |-> -56],
       up |-> [s |-> 0, m |-> <<16804, 180, 21485, 251>>, e |-> -56]],   \* 1.3270239018449907 -> 0.12287874528033753 .. 0.12287874528033754
      [x |-> [s |-> 0, m |-> <<23378, 30132, 12640, 202>>, e |-> -52],
       down |-> [s |-> 0, m |-> <<3072, 15746, 24421, 203>>, e |-> -55],
       up |-> [s |-> 0, m |-> <<3073, 15746, 24421, 203>>, e |-> -55]],   \* 1.5811388300841895 -> 0.19897000433601875 .. 0.19897000433601877
      [x |-> [s |-> 0, m |-> <<24658, 28072, 28387, 202>>, e |-> -52],
       down |-> [s |-> 0, m |-> <<6552, 13107, 26214, 204>>, e |-> -55],
       up |-> [s |-> 0, m |-> <<6553, 13107, 26214, 204>>, e |-> -55]],   \* 1.5848931924611134 -> 0.19999999999999996 .. 0.19999999999999998
      [x |-> [s |-> 0, m |-> <<28295, 12970, 27521, 213>>, e |-> -52],
       down |-> [s |-> 0, m |-> <<28058, 23027, 7465, 228>>, e |-> -55],
       up |-> [s |-> 0, m |-> <<28059, 23027, 7465, 228>>, e |-> -55]],   \* 1.670624112090907 -> 0.2228787452803374 .. 0.22287874528033744
      [x |-> [s |-> 0, m |-> <<28298, 12970, 27521, 213>>, e |-> -52],
       down |-> [s |-> 0, m |-> <<28065, 23027, 7465, 228>>, e |-> -55],
       up |-> [s |-> 0, m |-> <<28066, 23027, 7465, 228>>, e |-> -55]],   \* 1.6706241120909078 -> 0.2228787452803376 .. 0.22287874528033763
      [x |-> [s |-> 0, m |-> <<28128, 16036, 25840, 254>>, e |-> -52],
       down |-> [s |-> 0, m |-> <<27751, 11149, 2380, 153>>, e |-> -54],
       up |-> [s |-> 0, m |-> <<27752, 11149, 2380, 153>>, e |-> -54]],   \* 1.9905358527674863 -> 0.2989700043360188 .. 0.29897000433601884
      [x |-> [s |-> 0, m |-> <<14510, 23223, 12896, 255>>, e |-> -52],
       down |-> [s |-> 0, m |-> <<13105, 26214, 19660, 153>>, e |-> -54],
       up |-> [s |-> 0, m |-> <<13106, 26214, 19660, 153>>, e |-> -54]],   \* 1.9952623149688793 -> 0.2999999999999999 .. 0.29999999999999993
      [x |-> [s |-> 0, m |-> <<14512, 23223, 12896, 255>>, e |-> -52],
       down |-> [s |-> 0, m |-> <<13107, 26214, 19660, 153>>, e |-> -54],
       up |-> [s |-> 0, m |-> <<13108, 26214, 19660, 153>>, e |-> -54]],   \* 1.9952623149688797 -> 0.3 .. 0.30000000000000004
      [x |-> [s |-> 0, m |-> <<0, 0, 0, 128>>, e |-> -51],
       down |-> [s |-> 0, m |-> <<31230, 8510, 4173, 154>>, e |-> -54],
       up |-> [s |-> 0, m |-> <<31231, 8510, 4173, 154>>, e |-> -54]],   \* 2.0 -> 0.30102999566398114 .. 0.3010299956639812
      [x |-> [s |-> 0, m |-> <<23481, 17136, 19799, 134>>, e |-> -51],
       down |-> [s |-> 0, m |-> <<23861, 14790, 10286, 165>>, e |-> -54],
       up |-> [s |-> 0, m |-> <<23862, 14790, 10286, 165>>, e |-> -54]],   \* 2.1031911482673107 -> 0.3228787452803375 .. 0.32287874528033755
      [x |-> [s |-> 0, m |-> <<23482, 17136, 19799, 134>>, e |-> -51],
       down |-> [s |-> 0, m |-> <<23863, 14790, 10286, 165>>, e |-> -54],
       up |-> [s |-> 0, m |-> <<23864, 14790, 10286, 165>>, e |-> -54]],   \* 2.103191148267311 -> 0.3228787452803376 .. 0.32287874528033766
      [x |-> [s |-> 0, m |-> <<4838, 1536, 12449, 160>>, e |-> -51],
       down |-> [s |-> 0, m |-> <<21196, 30810, 8933, 204>>, e |-> -54],
       up |-> [s |-> 0, m |-> <<21197, 30810, 8933, 204>>, e |-> -54]],   \* 2.505936168136361 -> 0.3989700043360187 .. 0.39897000433601876
      [x |-> [s |-> 0, m |-> <<4839, 1536, 12449, 160>>, e |-> -51],
       down |-> [s |-> 0, m |-> <<21197, 30810, 8933, 204>>, e |-> -54],
       up |-> [s |-> 0, m |-> <<21198, 30810, 8933, 204>>, e |-> -54]],   \* 2.5059361681363614 -> 0.39897000433601876 .. 0.3989700043360188
      [x |-> [s |-> 0, m |-> <<19551, 21417, 24927, 160>>, e |-> -51],
       down |-> [s |-> 0, m |-> <<6553, 13107, 26214, 204>>, e |-> -54],
       up |-> [s |-> 0, m |-> <<6554, 13107, 26214, 204>>, e |-> -54]],   \* 2.51188643150958 -> 0.39999999999999997 .. 0.4
      [x |-> [s |-> 0, m |-> <<19552, 21417, 24927, 160>>, e |-> -51],
       down |-> [s |-> 0, m |-> <<6555, 13107, 26214, 204>>, e |-> -54],
       up |-> [s |-> 0, m |-> <<6556, 13107, 26214, 204>>, e |-> -54]],   \* 2.5118864315095806 -> 0.4000000000000001 .. 0.40000000000000013
      [x |-> [s |-> 0, m |-> <<0, 0, 0, 192>>, e |-> -51],
       down |-> [s |-> 0, m |-> <<22013, 11423, 9374, 244>>, e |-> -54],
       up |-> [s |-> 0, m |-> <<22014, 11423, 9374, 244>>, e |-> -54]],   \* 3.0 -> 0.47712125471966244 .. 0.4771212547196625
      [x |-> [s |-> 0, m |-> <<2454, 9321, 29699, 201>>, e |-> -51],
       down |-> [s |-> 0, m |-> <<14644, 17703, 15487, 255>>, e |-> -54],
       up |-> [s |-> 0, m |-> <<14645, 17703, 15487, 255>>, e |-> -54]],   \* 3.1547867224009662 -> 0.4989700043360188 .. 0.49897000433601885
      [x |-> [s |-> 0, m |-> <<2455, 9321, 29699, 201>>, e |-> -51],
       down |-> [s |-> 0, m |-> <<14645, 17703, 15487, 255>>, e |-> -54],
       up |-> [s |-> 0, m |-> <<14646, 17703, 15487, 255>>, e |-> -54]],   \* 3.1547867224009667 -> 0.49897000433601885 .. 0.4989700043360189
      [x |-> [s |-> 0, m |-> <<23378, 30132, 12640, 202>>, e |-> -51],
       down |-> [s |-> 0, m |-> <<32767, 32767, 32767, 255>>, e |-> -54],
       up |-> [s |-> 0, m |-> <<0, 0, 0, 128>>, e |-> -53]],   \* 3.162277660168379 -> 0.49999999999999994 .. 0.5
      [x |-> [s |-> 0, m |-> <<28128, 16036, 25840, 254>>, e |-> -51],
       down |-> [s |-> 0, m |-> <<13107, 26214, 19660, 153>>, e |-> -53],
       up |-> [s |-> 0, m |-> <<13108, 26214, 19660, 153>>, e |-> -53]],   \* 3.9810717055349727 -> 0.6 .. 0.6000000000000001
      [x |-> [s |-> 0, m |-> <<0, 0, 0, 128>>, e |-> -50],
       down |-> [s |-> 0, m |-> <<31230, 8510, 4173, 154>>, e |-> -53],
       up |-> [s |-> 0, m |-> <<31231, 8510, 4173, 154>>, e |-> -53]],   \* 4.0 -> 0.6020599913279623 .. 0.6020599913279624
      [x |-> [s |-> 0, m |-> <<0, 0, 0, 160>>, e |-> -50],
       down |-> [s |-> 0, m |-> <<17152, 12128, 30681, 178>>, e |-> -53],
       up |-> [s |-> 0, m |-> <<17153, 12128, 30681, 178>>, e |-> -53]],   \* 5.0 -> 0.6989700043360187 .. 0.6989700043360189
      [x |-> [s |-> 0, m |-> <<4838, 1536, 12449, 160>>, e |-> -50],
       down |-> [s |-> 0, m |-> <<26213, 19660, 6553, 179>>, e |-> -53],
       up |-> [s |-> 0, m |-> <<26214, 19660, 6553, 179>>, e |-> -53]],   \* 5.011872336272722 -> 0.6999999999999998 .. 0.7
      [x |-> [s |-> 0, m |-> <<4839, 1536, 12449, 160>>, e |-> -50],
       down |-> [s |-> 0, m |-> <<26214, 19660, 6553, 179>>, e |-> -53],
       up |-> [s |-> 0, m |-> <<26215, 19660, 6553, 179>>, e |-> -53]],   \* 5.011872336272723 -> 0.7 .. 0.7000000000000001
      [x |-> [s |-> 0, m |-> <<0, 0, 0, 192>>, e |-> -50],
       down |-> [s |-> 0, m |-> <<10237, 26351, 6773, 199>>, e |-> -53],
       up |-> [s |-> 0, m |-> <<10238, 26351, 6773, 199>>, e |-> -53]],   \* 6.0 -> 0.7781512503836435 .. 0.7781512503836436
      [x |-> [s |-> 0, m |-> <<2454, 9321, 29699, 201>>, e |-> -50],
       down |-> [s |-> 0, m |-> <<6553, 13107, 26214, 204>>, e |-> -53],
       up |-> [s |-> 0, m |-> <<6554, 13107, 26214, 204>>, e |-> -53]],   \* 6.3095734448019325 -> 0.7999999999999999 .. 0.8
      [x |-> [s |-> 0, m |-> <<2455, 9321, 29699, 201>>, e |-> -50],
       down |-> [s |-> 0, m |-> <<6554, 13107, 26214, 204>>, e |-> -53],
       up |-> [s |-> 0, m |-> <<6555, 13107, 26214, 204>>, e |-> -53]],   \* 6.309573444801933 -> 0.8 .. 0.8000000000000002
      [x |-> [s |-> 0, m |-> <<0, 0, 0, 224>>, e |-> -50],
       down |-> [s |-> 0, m |-> <<19519, 5873, 11308, 216>>, e |-> -53],
       up |-> [s |-> 0, m |-> <<19520, 5873, 11308, 216>>, e |-> -53]],   \* 7.0 -> 0.8450980400142568 .. 0.8450980400142569
      [x |-> [s |-> 0, m |-> <<0, 0, 0, 128>>, e |-> -49],
       down |-> [s |-> 0, m |-> <<14078, 29150, 6259, 231>>, e |-> -53],
       up |-> [s |-> 0, m |-> <<14079, 29150, 6259, 231>>, e |-> -53]]   \* 8.0 -> 0.9030899869919435 .. 0.9030899869919436
    }

\* 10 ** x: the doubles next below and next above the exact value
\* (the same double twice when the exact value is a double)
Pow10Table ==
    {
      [x |-> [s |-> 0, m |-> <<>>, e |-> 0],
       down |-> [s |-> 0, m |-> <<0, 0, 0, 128>>, e |-> -52],
       up |-> [s |-> 0, m |-> <<0, 0, 0, 128>>, e |-> -52]],   \* 0.0 -> 1.0 .. 1.0
      [x |-> [s |-> 0, m |-> <<6554, 13107, 26214, 204>>, e |-> -56],
       down |-> [s |-> 0, m |-> <<9731, 29176, 4667, 161>>, e |-> -52],
       up |-> [s |-> 0, m |-> <<9732, 29176, 4667, 161>>, e |-> -52]],   \* 0.1 -> 1.258925411794167 .. 1.2589254117941673
      [x |-> [s |-> 0, m |-> <<6554, 13107, 26214, 204>>, e |-> -55],
       down |-> [s |-> 0, m |-> <<24658, 28072, 28387, 202>>, e |-> -52],
       up |-> [s |-> 0, m |-> <<24659, 28072, 28387, 202>>, e |-> -52]],   \* 0.2 -> 1.5848931924611134 .. 1.5848931924611136
      [x |-> [s |-> 0, m |-> <<13107, 26214, 19660, 153>>, e |-> -54],
       down |-> [s |-> 0, m |-> <<14511, 23223, 12896, 255>>, e |-> -52],
       up |-> [s |-> 0, m |-> <<14512, 23223, 12896, 255>>, e |-> -52]],   \* 0.3 -> 1.9952623149688795 .. 1.9952623149688797
      [x |-> [s |-> 0, m |-> <<31230, 8510, 4173, 154>>, e |-> -54],
       down |-> [s |-> 0, m |-> <<32766, 32767, 32767, 255>>, e |-> -52],
       up |-> [s |-> 0, m |-> <<32767, 32767, 32767, 255>>, e |-> -52]],   \* 0.30102999566398114 -> 1.9999999999999996 .. 1.9999999999999998
      [x |-> [s |-> 0, m |-> <<31231, 8510, 4173, 154>>, e |-> -54],
       down |-> [s |-> 0, m |-> <<0, 0, 0, 128>>, e |-> -51],
       up |-> [s |-> 0, m |-> <<1, 0, 0, 128>>, e |-> -51]],   \* 0.3010299956639812 -> 2.0 .. 2.0000000000000004
      [x |-> [s |-> 0, m |-> <<6554, 13107, 26214, 204>>, e |-> -54],
       down |-> [s |-> 0, m |-> <<19551, 21417, 24927, 160>>, e |-> -51],
       up |-> [s |-> 0, m |-> <<19552, 21417, 24927, 160>>, e |-> -51]],   \* 0.4 -> 2.51188643150958 .. 2.5118864315095806
      [x |-> [s |-> 0, m |-> <<22013, 11423, 9374, 244>>, e |-> -54],
       down |-> [s |-> 0, m |-> <<32767, 32767, 32767, 191>>, e |-> -51],
       up |-> [s |-> 0, m |-> <<0, 0, 0, 192>>, e |-> -51]],   \* 0.47712125471966244 -> 2.9999999999999996 .. 3.0
      [x |-> [s |-> 0, m |-> <<22014, 11423, 9374, 244>>, e |-> -54],
       down |-> [s |-> 0, m |-> <<0, 0, 0, 192>>, e |-> -51],
       up |-> [s |-> 0, m |-> <<1, 0, 0, 192>>, e |-> -51]],   \* 0.4771212547196625 -> 3.0 .. 3.0000000000000004
      [x |-> [s |-> 0, m |-> <<0, 0, 0, 128>>, e |-> -53],
       down |-> [s |-> 0, m |-> <<23378, 30132, 12640, 202>>, e |-> -51],
       up |-> [s |-> 0, m |-> <<23379, 30132, 12640, 202>>, e |-> -51]],   \* 0.5 -> 3.162277660168379 .. 3.1622776601683795
      [x |-> [s |-> 0, m |-> <<13107, 26214, 19660, 153>>, e |-> -53],
       down |-> [s |-> 0, m |-> <<28127, 16036, 25840, 254>>, e |-> -51],
       up |-> [s |-> 0, m |-> <<28128, 16036, 25840, 254>>, e |-> -51]],   \* 0.6 -> 3.9810717055349722 .. 3.9810717055349727
      [x |-> [s |-> 0, m |-> <<31230, 8510, 4173, 154>>, e |-> -53],
       down |-> [s |-> 0, m |-> <<32765, 32767, 32767, 255>>, e |-> -51],
       up |-> [s |-> 0, m |-> <<32766, 32767, 32767, 255>>, e |-> -51]],   \* 0.6020599913279623 -> 3.9999999999999987 .. 3.999999999999999
      [x |-> [s |-> 0, m |-> <<31231, 8510, 4173, 154>>, e |-> -53],
       down |-> [s |-> 0, m |-> <<0, 0, 0, 128>>, e |-> -50],
       up |-> [s |-> 0, m |-> <<1, 0, 0, 128>>, e |-> -50]],   \* 0.6020599913279624 -> 4.0 .. 4.000000000000001
      [x |-> [s |-> 0, m |-> <<17152, 12128, 30681, 178>>, e |-> -53],
       down |-> [s |-> 0, m |-> <<32767, 32767, 32767, 159>>, e |-> -50],
       up |-> [s |-> 0, m |-> <<0, 0, 0, 160>>, e |-> -50]],   \* 0.6989700043360187 -> 4.999999999999999 .. 5.0
      [x |-> [s |-> 0, m |-> <<17153, 12128, 30681, 178>>, e |-> -53],
       down |-> [s |-> 0, m |-> <<0, 0, 0, 160>>, e |-> -50],
       up |-> [s |-> 0, m |-> <<1, 0, 0, 160>>, e |-> -50]],   \* 0.6989700043360189 -> 5.0 .. 5.000000000000001
      [x |-> [s |-> 0, m |-> <<26214, 19660, 6553, 179>>, e |-> -53],
       down |-> [s |-> 0, m |-> <<4838, 1536, 12449, 160>>, e |-> -50],
       up |-> [s |-> 0, m |-> <<4839, 1536, 12449, 160>>, e |-> -50]],   \* 0.7 -> 5.011872336272722 .. 5.011872336272723
      [x |-> [s |-> 0, m |-> <<10237, 26351, 6773, 199>>, e |-> -53],
       down |-> [s |-> 0, m |-> <<32766, 32767, 32767, 191>>, e |-> -50],
       up |-> [s |-> 0, m |-> <<32767, 32767, 32767, 191>>, e |-> -50]],   \* 0.7781512503836435 -> 5.999999999999998 .. 5.999999999999999
      [x |-> [s |-> 0, m |-> <<10238, 26351, 6773, 199>>, e |-> -53],
       down |-> [s |-> 0, m |-> <<0, 0, 0, 192>>, e |-> -50],
       up |-> [s |-> 0, m |-> <<1, 0, 0, 192>>, e |-> -50]],   \* 0.7781512503836436 -> 6.0 .. 6.000000000000001
      [x |-> [s |-> 0, m |-> <<6554, 13107, 26214, 204>>, e |-> -53],
       down |-> [s |-> 0, m |-> <<2454, 9321, 29699, 201>>, e |-> -50],
       up |-> [s |-> 0, m |-> <<2455, 9321, 29699, 201>>, e |-> -50]],   \* 0.8 -> 6.3095734448019325 .. 6.309573444801933
      [x |-> [s |-> 0, m |-> <<19518, 5873, 11308, 216>>, e |-> -53],
       down |-> [s |-> 0, m |-> <<32765, 32767, 32767, 223>>, e |-> -50],
       up |-> [s |-> 0, m |-> <<32766, 32767, 32767, 223>>, e |-> -50]],   \* 0.8450980400142567 -> 6.999999999999997 .. 6.999999999999998
      [x |-> [s |-> 0, m |-> <<19520, 5873, 11308, 216>>, e |-> -53],
       down |-> [s |-> 0, m |-> <<1, 0, 0, 224>>, e |-> -50],
       up |-> [s |-> 0, m |-> <<2, 0, 0, 224>>, e |-> -50]],   \* 0.8450980400142569 -> 7.000000000000001 .. 7.000000000000002
      [x |-> [s |-> 0, m |-> <<14078, 29150, 6259, 231>>, e |-> -53],
       down |-> [s |-> 0, m |-> <<32767, 32767, 32767, 255>>, e |-> -50],
       up |-> [s |-> 0, m |-> <<0, 0, 0, 128>>, e |-> -49]],   \* 0.9030899869919435 -> 7.999999999999999 .. 8.0
      [x |-> [s |-> 0, m |-> <<0, 0, 0, 192>>, e |-> -51],
       down |-> [s |-> 0, m |-> <<0, 0, 0, 250>>, e |-> -43],
       up |-> [s |-> 0, m |-> <<0, 0, 0, 250>>, e |-> -43]],   \* 3.0 -> 1000.0 .. 1000.0
      [x |-> [s |-> 0, m |-> <<28480, 21543, 8713, 211>>, e |-> -51],
       down |-> [s |-> 0, m |-> <<1, 0, 0, 250>>, e |-> -42],
       up |-> [s |-> 0, m |-> <<2, 0, 0, 250>>, e |-> -42]],   \* 3.3010299956639813 -> 2000.0000000000002 .. 2000.0000000000005
      [x |-> [s |-> 0, m |-> <<31424, 26003, 17555, 222>>, e |-> -51],
       down |-> [s |-> 0, m |-> <<2, 0, 16384, 187>>, e |-> -41],
       up |-> [s |-> 0, m |-> <<3, 0, 16384, 187>>, e |-> -41]],   \* 3.4771212547196626 -> 3000.000000000001 .. 3000.0000000000014
      [x |-> [s |-> 0, m |-> <<24192, 10319, 17427, 230>>, e |-> -51],
       down |-> [s |-> 0, m |-> <<2, 0, 0, 250>>, e |-> -41],
       up |-> [s |-> 0, m |-> <<3, 0, 0, 250>>, e |-> -41]],   \* 3.6020599913279625 -> 4000.000000000001 .. 4000.0000000000014
      [x |-> [s |-> 0, m |-> <<4288, 11224, 24054, 236>>, e |-> -51],
       down |-> [s |-> 0, m |-> <<32767, 32767, 8191, 156>>, e |-> -40],
       up |-> [s |-> 0, m |-> <<0, 0, 8192, 156>>, e |-> -40]],   \* 3.6989700043360187 -> 4999.999999999999 .. 5000.0
      [x |-> [s |-> 0, m |-> <<27136, 14779, 26269, 241>>, e |-> -51],
       down |-> [s |-> 0, m |-> <<3, 0, 16384, 187>>, e |-> -40],
       up |-> [s |-> 0, m |-> <<4, 0, 16384, 187>>, e |-> -40]],   \* 3.778151250383644 -> 6000.000000000003 .. 6000.000000000004
      [x |-> [s |-> 0, m |-> <<13072, 1468, 2827, 246>>, e |-> -51],
       down |-> [s |-> 0, m |-> <<1, 0, 24576, 218>>, e |-> -40],
       up |-> [s |-> 0, m |-> <<2, 0, 24576, 218>>, e |-> -40]],   \* 3.845098040014257 -> 7000.000000000001 .. 7000.000000000002
      [x |-> [s |-> 0, m |-> <<19904, 31863, 26140, 249>>, e |-> -51],
       down |-> [s |-> 0, m |-> <<3, 0, 0, 250>>, e |-> -40],
       up |-> [s |-> 0, m |-> <<4, 0, 0, 250>>, e |-> -40]]   \* 3.9030899869919438 -> 8000.000000000003 .. 8000.000000000004
    }

-----------------------------------------------------------------------------
(* lin2dB / lin2dBm / dB2lin / dBm2lin and snr_dB_sum *)

\* the doubles 1.0, 10.0, 30.0 and 1e-3 of the source
F64One == F64FromInt(1)
F64Ten == F64FromInt(10)
F64Thirty == F64FromInt(30)
F64Milli == F64Div(F64One, F64FromInt(1000))

\* the C library gives log10 and pow up to the last place: either of the two
\* doubles around the exact value
Directions == {"down", "up"}

Log10(x, dir) == Only({(CHOOSE row \in Log10Table : row.x = a)[dir] : a \in {x}})

Pow10(x, dir) == Only({(CHOOSE row \in Pow10Table : row.x = a)[dir] : a \in {x}})

\* 10 * log10(value_lin) of one element
TenLog10(x, dir) == F64Mul(F64Ten, Log10(x, dir))

\* 10 ** (value_dB / 10) of one element
TenPowTenth(x, dir) == Pow10(F64Div(x, F64Ten), dir)

\* A value is [kind, rank, vals]: a Python float ("float"), a numpy scalar
\* ("float64"; np.float64 is a subclass of float), a list of floats ("list"),
\* or an ndarray of rank 0 or 1 ("ndarray"); vals are its elements.
Value(kind, rank, vals) == [raised |-> "none", kind |-> kind, rank |-> rank, vals |-> vals]

\* the call raised an error
RaisedDb(err) == [raised |-> err, kind |-> "none", rank |-> 0, vals |-> <<>>]

\* isinstance(value, (float, list))
FlagConvert(v) == v.kind \in {"float", "float64", "list"}

\* asanyarray(value)
AsAnyArray(v) == Value("ndarray", v.rank, v.vals)

\* what numpy returns for an elementwise operation on an array or a numpy
\* scalar: a numpy scalar for rank 0, an ndarray of the same shape otherwise
NumpyResult(rank, vals) ==
    IF rank = 0 THEN Value("float64", 0, vals) ELSE Value("ndarray", rank, vals)

\* .tolist(): a Python float for rank 0, a list otherwise
ToList(v) == IF v.rank = 0 THEN Value("float", 0, v.vals) ELSE Value("list", v.rank, v.vals)

\* the result of the C library for each distinct element of a value
Choices(v) == [Range(v.vals) -> Directions]

Map(Op(_, _), v, ch) == [k \in DOMAIN v.vals |-> Op(v.vals[k], ch[v.vals[k]])]

Plus30(vals) == [k \in DOMAIN vals |-> F64Add(vals[k], F64Thirty)]

TimesMilli(vals) == [k \in DOMAIN vals |-> F64Mul(vals[k], F64Milli)]

\* research_tools lin2dB (lines 20-23)
ResearchLin2dB(v, ch) ==
    Only({LET res == NumpyResult(AsAnyArray(v).rank, vals)
          IN  IF FlagConvert(v) THEN ToList(res) ELSE res
          : vals \in {Map(TenLog10, v, ch)}})

\* research_tools lin2dBm (lines 34-37)
ResearchLin2dBm(v, ch) ==
    Only({LET res == NumpyResult(inner.rank, Plus30(inner.vals))
          IN  IF FlagConvert(v) THEN ToList(res) ELSE res
          : inner \in {ResearchLin2dB(AsAnyArray(v), ch)}})

\* research_tools dB2lin (lines 47-50)
ResearchDB2lin(v, ch) ==
    Only({LET res == NumpyResult(AsAnyArray(v).rank, vals)
          IN  IF FlagConvert(v) THEN ToList(res) ELSE res
          : vals \in {Map(TenPowTenth, v, ch)}})

\* research_tools dBm2lin (lines 60-63)
ResearchDBm2lin(v, ch) ==
    Only({LET res == NumpyResult(inner.rank, TimesMilli(inner.vals))
          IN  IF FlagConvert(v) THEN ToList(res) ELSE res
          : inner \in {ResearchDB2lin(AsAnyArray(v), ch)}})

\* personal_tools lin2dB (line 14): numpy's log10 of whatever is given
PersonalLin2dB(v, ch) ==
    Only({NumpyResult(v.rank, vals) : vals \in {Map(TenLog10, v, ch)}})

\* personal_tools lin2dBm (line 18)
PersonalLin2dBm(v, ch) ==
    Only({NumpyResult(v.rank, Plus30(inner.vals)) : inner \in {PersonalLin2dB(v, ch)}})

\* (faulty variant of PersonalDB2lin) the factor 1e-3 of dBm2lin is applied
PersonalDB2linMilli(v, ch) ==
    IF v.kind = "list" THEN RaisedDb("TypeError")
    ELSE IF v.kind = "float"
      THEN Value("float", 0, TimesMilli(Map(TenPowTenth, v, ch)))
    ELSE NumpyResult(v.rank, TimesMilli(Map(TenPowTenth, v, ch)))

\* personal_tools dB2lin (line 22): value_dB / 10 is Python's division for a
\* float, is not defined for a list, and is numpy's otherwise
PersonalDB2lin(v, ch) ==
    IF v.kind = "list" THEN RaisedDb("TypeError")
    ELSE Only({IF v.kind = "float" THEN Value("float", 0, vals)
               ELSE NumpyResult(v.rank, vals)
               : vals \in {Map(TenPowTenth, v, ch)}})

\* personal_tools dBm2lin (line 26)
PersonalDBm2lin(v, ch) ==
    Only({IF inner.raised # "none" THEN inner
          ELSE [inner EXCEPT !.vals = TimesMilli(inner.vals)]
          : inner \in {PersonalDB2lin(v, ch)}})

Packages == {"research_tools", "personal_tools"}

lin2dB(pkg, v, ch) ==
    IF pkg = "research_tools" THEN ResearchLin2dB(v, ch) ELSE PersonalLin2dB(v, ch)

lin2dBm(pkg, v, ch) ==
    IF pkg = "research_tools" THEN ResearchLin2dBm(v, ch) ELSE PersonalLin2dBm(v, ch)

dB2lin(pkg, v, ch) ==
    IF pkg = "research_tools" THEN ResearchDB2lin(v, ch) ELSE PersonalDB2lin(v, ch)

dBm2lin(pkg, v, ch) ==
    IF pkg = "research_tools" THEN ResearchDBm2lin(v, ch) ELSE PersonalDBm2lin(v, ch)

\* sum(snr_list) of line 23: the int 0 plus the terms, from left to right
RECURSIVE SumFrom(_, _, _)
SumFrom(terms, k, acc) ==
    IF k > Len(terms) THEN acc
    ELSE SumFrom(terms, k + 1, F64Add(acc, terms[k]))

\* (faulty variant of snr_dB_sum) the result is given in dBm
snr_dBm_sum(snrs, ch, dir) ==
    IF snrs = <<>> THEN RaisedDb("ZeroDivisionError")
    ELSE Only({Only({Only({ResearchLin2dBm(inverse, [e \in Range(inverse.vals) |-> dir])
                           : inverse \in {Value("float64", 0, <<F64Div(F64One, snr_sum)>>)}})
                     : snr_sum \in {SumFrom(snr_list, 1, F64Zero)}})
               : snr_list \in {[k \in DOMAIN snrs |->
                                  F64Div(F64One,
                                         ResearchDB2lin(Value("ndarray", 0, <<snrs[k]>>),
                                                        ch).vals[1])]}})

\* research_tools.math.snr_dB_sum(*args) (lines 22-25); without arguments the
\* sum is the int 0 and 1 / snr_sum raises
snr_dB_sum(snrs, ch, dir) ==
    IF snrs = <<>> THEN RaisedDb("ZeroDivisionError")
    ELSE Only({Only({Only({ResearchLin2dB(inverse, [e \in Range(inverse.vals) |-> dir])
                           : inverse \in {Value("float64", 0, <<F64Div(F64One, snr_sum)>>)}})
                     : snr_sum \in {SumFrom(snr_list, 1, F64Zero)}})
               : snr_list \in {[k \in DOMAIN snrs |->
                                  F64Div(F64One,
                                         ResearchDB2lin(Value("ndarray", 0, <<snrs[k]>>),
                                                        ch).vals[1])]}})

\* the floats handed to the functions: 1.0, 2.0, .., MaxLin
DbFloats == {F64FromInt(k) : k \in 1..MaxLin}

\* the elements of the lists and arrays handed to the functions
DbElements == {F64FromInt(1), F64FromInt(2)}

DbSequences == UNION {[1..n -> DbElements] : n \in 0..MaxArrayLen}

DbInputs ==
    {Value("float", 0, <<f>>) : f \in DbFloats}
      \cup {Value("ndarray", 0, <<f>>) : f \in DbFloats}
      \cup {Value("list", 1, q) : q \in DbSequences}
      \cup {Value("ndarray", 1, q) : q \in DbSequences}

\* the arguments of snr_dB_sum: up to MaxTerms times the same SNR
SnrInputs ==
    {Value("args", 1, [k \in 1..n |-> f]) : n \in 0..MaxTerms, f \in DbFloats}

\* the function a function undoes
Inverse(fn) ==
    CASE fn = "dB2lin" -> "lin2dB"
      [] fn = "dBm2lin" -> "lin2dBm"
      [] OTHER -> "none"

\* the argument of the next call: the input, then what the last call returned
DbArg == IF dbOps = <<>> THEN dbIn ELSE dbOut[Len(dbOut)]

\* a first call, or the call of dB2lin (dBm2lin) of the same package on what
\* lin2dB (lin2dBm) returned
MayCall(pkg, fn) ==
    \/ dbOps = <<>> /\ dbIn.kind # "args"
    \/ /\ Len(dbOps) = 1
       /\ dbOps[1] = <<pkg, Inverse(fn)>>
       /\ dbOut[1].raised = "none"

Called(pkg, fn, res) ==
    /\ dbOut' = Append(dbOut, res)
    /\ dbOps' = Append(dbOps, <<pkg, fn>>)
    /\ UNCHANGED dbIn

Lin2dB ==
    /\ \E pkg \in Packages :
          /\ MayCall(pkg, "lin2dB")
          /\ \E ch \in Choices(DbArg) : Called(pkg, "lin2dB", lin2dB(pkg, DbArg, ch))
    /\ UNCHANGED notDbVars

Lin2dBm ==
    /\ \E pkg \in Packages :
          /\ MayCall(pkg, "lin2dBm")
          /\ \E ch \in Choices(DbArg) : Called(pkg, "lin2dBm", lin2dBm(pkg, DbArg, ch))
    /\ UNCHANGED notDbVars

DB2lin ==
    /\ \E pkg \in Packages :
          /\ MayCall(pkg, "dB2lin")
          /\ \E ch \in Choices(DbArg) : Called(pkg, "dB2lin", dB2lin(pkg, DbArg, ch))
    /\ UNCHANGED notDbVars

DBm2lin ==
    /\ \E pkg \in Packages :
          /\ MayCall(pkg, "dBm2lin")
          /\ \E ch \in Choices(DbArg) : Called(pkg, "dBm2lin", dBm2lin(pkg, DbArg, ch))
    /\ UNCHANGED notDbVars

SnrDbSum ==
    /\ dbOps = <<>>
    /\ dbIn.kind = "args"
    /\ \E ch \in Choices(dbIn), dir \in Directions :
          Called("research_tools", "snr_dB_sum", snr_dB_sum(dbIn.vals, ch, dir))
    /\ UNCHANGED notDbVars

\* no call is in progress
IdleDb ==
    /\ dbIn = Value("float", 0, <<F64One>>)
    /\ dbOps = <<>>
    /\ dbOut = <<>>

InitDecibel ==
    /\ dbIn \in DbInputs \cup SnrInputs
    /\ dbOps = <<>>
    /\ dbOut = <<>>

StepDb == Lin2dB \/ Lin2dBm \/ DB2lin \/ DBm2lin \/ SnrDbSum

-----------------------------------------------------------------------------
(* update_default_dict and the module-level default parameter dicts *)

\* A dict is a function from its keys to its values; values are written as
\* their Python literals. Dict objects live in `heap` under their identity:
\* the module-level dicts under their names, the **kwargs dict of the call
\* in progress under "kwargs", the dict created by dict.copy() under
\* "new_default_dict".
EmptyDict == [k \in {} |-> "None"]

\* research_tools/in_out.py lines 20-26, plot.py lines 68-96
InitialDefaults ==
    [SAVE_DEFAULT_CSV_PARAMS |-> [index |-> "False"],
     SAVE_DEFAULT_JSON_PARAMS |-> [indent |-> "2"],
     SAVE_DEFAULT_PRETTY_PRINT_JSON_PARAMS |->
         [indent |-> "2", width |-> "120", compact |-> "True", sort_dicts |-> "False"],
     SAVE_DEFAULT_NPY_PARAMS |-> EmptyDict,
     SAVE_DEFAULT_MAT_PARAMS |-> EmptyDict,
     SAVE_DEFAULT_EXCEL_PARAMS |-> [header |-> "True", index |-> "False"],
     LOAD_DEFAULT_EXCEL_PARAMS |-> [sheet_name |-> "None"],
     LIST_SHRINK_OPTIONS_low |->
         [borderpad |-> "0.3", labelspacing |-> "0.4", handlelength |-> "1.5",
          handleheight |-> "0.5", handletextpad |-> "0.6", borderaxespad |-> "0.4",
          columnspacing |-> "1.5"],
     LIST_SHRINK_OPTIONS_medium |->
         [borderpad |-> "0.2", labelspacing |-> "0.3", handlelength |-> "1.0",
          handleheight |-> "0.3", handletextpad |-> "0.4", borderaxespad |-> "0.3",
          columnspacing |-> "1.0"],
     LIST_SHRINK_OPTIONS_high |->
         [borderpad |-> "0.1", labelspacing |-> "0.2", handlelength |-> "0.5",
          handleheight |-> "0.1", handletextpad |-> "0.2", borderaxespad |-> "0.1",
          columnspacing |-> "0.5"]]

\* the module-level dict objects
DefaultDicts == DOMAIN InitialDefaults

\* LIST_SHRINK_OPTIONS: its keys and the dict object each one holds
LIST_SHRINK_OPTIONS ==
    [low |-> "LIST_SHRINK_OPTIONS_low",
     medium |-> "LIST_SHRINK_OPTIONS_medium",
     high |-> "LIST_SHRINK_OPTIONS_high"]

\* h with object ref holding d
Store(h, ref, d) == [o \in DOMAIN h \cup {ref} |-> IF o = ref THEN d ELSE h[o]]

\* the for loop of update_default_dict: new_default_dict[key] = new_dict[key]
AssignAll(target, source) ==
    [k \in DOMAIN target \cup DOMAIN source |->
        IF k \in DOMAIN source THEN source[k] ELSE target[k]]

\* faulty variant of update_default_dict: without .copy() the loop writes
\* into default_dict itself
update_default_dict_in_place(h, default_dict, new_dict) ==
    [heap |-> Store(h, default_dict, AssignAll(h[default_dict], h[new_dict])),
     ref  |-> default_dict]

\* update_default_dict(default_dict, new_dict) on the objects of h: the heap
\* afterwards and the object returned
update_default_dict(h, default_dict, new_dict) ==
    LET copied == Store(h, "new_default_dict", h[default_dict])
    IN  [heap |-> Store(copied, "new_default_dict",
                        AssignAll(copied["new_default_dict"], copied[new_dict])),
         ref  |-> "new_default_dict"]

\* the keyword arguments the calls of the model are made with
KwargsKeys == {"index", "borderpad", "ncol"}
KwargsValues == {"True", "4"}
Kwargs == UNION {[ks -> KwargsValues] : ks \in SUBSET KwargsKeys}

\* save, lines 107-133: the default dict of the branch taken, "none" when
\* the branch calls no update_default_dict
SaveDefault(branch, json_pretty_print, sheets) ==
    IF branch = "json"
      THEN IF ~json_pretty_print THEN "SAVE_DEFAULT_JSON_PARAMS"
           ELSE "SAVE_DEFAULT_PRETTY_PRINT_JSON_PARAMS"
    ELSE IF branch = "csv" THEN "SAVE_DEFAULT_CSV_PARAMS"
    ELSE IF branch = "mat" THEN "SAVE_DEFAULT_MAT_PARAMS"
    ELSE IF branch = "npy" THEN "SAVE_DEFAULT_NPY_PARAMS"
    ELSE IF branch = "excel" /\ sheets # 0 THEN "SAVE_DEFAULT_EXCEL_PARAMS"
    ELSE "none"

\* load, lines 46-87: only the Excel branch calls update_default_dict
LoadDefault(branch) ==
    IF branch = "excel" THEN "LOAD_DEFAULT_EXCEL_PARAMS" ELSE "none"

\* set_legend, lines 324-330: shrink is False, True or a string
ShrinkDefault(shrink) ==
    IF shrink = "True" THEN LIST_SHRINK_OPTIONS["low"]
    ELSE IF shrink = "False" THEN "none"
    ELSE IF shrink \in DOMAIN LIST_SHRINK_OPTIONS THEN LIST_SHRINK_OPTIONS[shrink]
    ELSE "NotImplementedError"

RECURSIVE Repeated(_, _, _)
\* the heap and the object returned after calling
\* update_default_dict(default_dict, kwargs) `times` >= 1 times in a row
Repeated(h, default_dict, times) ==
    IF times = 1 THEN update_default_dict(h, default_dict, "kwargs")
    ELSE Repeated(update_default_dict(h, default_dict, "kwargs").heap,
                  default_dict, times - 1)

\* a call of function fn with keyword arguments kw that takes the branch of
\* default dict `default` and calls update_default_dict `times` times; the
\* dicts local to the call before it are gone by then
DdCalled(fn, kw, default, times) ==
    LET entered == Store([o \in DefaultDicts |-> heap[o]], "kwargs", kw)
        updated == Repeated(entered, default, times)
    IN  IF default \in {"none", "NotImplementedError"}
          THEN /\ heap' = entered
               /\ ddCall' = [fn |-> fn, default |-> default, before |-> EmptyDict,
                             kwargs |-> kw, ref |-> "kwargs"]
          ELSE /\ heap' = updated.heap
               /\ ddCall' = [fn |-> fn, default |-> default,
                             before |-> heap[default],
                             kwargs |-> kw, ref |-> updated.ref]

\* the file names save and load are called with here: one per suffix
DdPaths ==
    {S_data \o Dot(w) : w \in {S_json, S_csv, S_mat, S_npy, S_npz, S_xlsx, S_xls,
                                S_ods, S_txt, S_pickle, S_bak}}

\* research_tools.in_out.save(file_path, data, json_pretty_print, **kwargs);
\* sheets is 1 for a DataFrame, else the number of items of the dict `data`
DdSave ==
    /\ UNCHANGED notDdVars
    /\ \E path \in DdPaths, pretty \in BOOLEAN, sheets \in 0..MaxSheets, kw \in Kwargs :
          DdCalled("save", kw, SaveDefault(ResearchBranch(path), pretty, sheets),
                   IF ResearchBranch(path) = "excel" /\ sheets # 0 THEN sheets ELSE 1)

\* research_tools.in_out.load(file_path, **kwargs)
DdLoad ==
    /\ UNCHANGED notDdVars
    /\ \E path \in DdPaths, kw \in Kwargs :
          DdCalled("load", kw, LoadDefault(ResearchBranch(path)), 1)

\* research_tools.plot.set_legend(axis, shrink=shrink, **kwargs)
DdSetLegend ==
    /\ UNCHANGED notDdVars
    /\ \E shrink \in {"False", "True", "low", "medium", "high", "tiny"}, kw \in Kwargs :
          DdCalled("set_legend", kw, ShrinkDefault(shrink), 1)

\* after the import of in_out and plot, no call made
IdleDd ==
    /\ heap = InitialDefaults
    /\ ddCall = [fn |-> "none", default |-> "none", before |-> EmptyDict,
                 kwargs |-> EmptyDict, ref |-> "none"]

StepDd == DdSave \/ DdLoad \/ DdSetLegend

-----------------------------------------------------------------------------
(* FolderStructure: the results and figures folders *)

\* FolderStructure.PROJECT_PATH: the folder the import found
PROJECT_PATH == <<"project">>

\* pathlib: path / name for a relative one-part name
Slash(path, name) == Append(path, name)

\* the folder names and the complete paths handed to the methods
FolderNames == {"run1", "run2"}
CompletePaths == {<<"elsewhere">>}

\* tools/in_out.py get_or_create_folder: makedirs creates the folder and all
\* its parents
MakeDirs(existing, path) ==
    existing \cup {SubSeq(path, 1, k) : k \in 1..Len(path)}

\* get_or_create_folder where the package calls it at an assignment of
\* RESULTS (personal_tools), nothing where the package only assigns (tools)
CreatedOnAssign(existing, path) ==
    IF fsPkg = "personal_tools" THEN MakeDirs(existing, path) ELSE existing

\* the class body, lines 26-30
InitialResults == Slash(PROJECT_PATH, "results")

\* reset_results(): RESULTS afterwards
ResetResults == InitialResults

\* add_results_sub_folder(name) / add_sub_folder(name): RESULTS afterwards
SubFolder(path, name) == Slash(path, name)

\* add_results_sub_folder(name) (tools) / add_sub_folder(name)
\* (personal_tools): FIGURES afterwards, given the new RESULTS; only tools
\* assigns it
FiguresAfterAdd(newResults) ==
    IF fsPkg = "tools" THEN Slash(newResults, "Figures") ELSE FIGURES

FsMayCall == Len(fsCalls) < MaxFsCalls

\* FolderStructure.set_results_path(path_name, is_complete_path)
SetResultsPath ==
    /\ UNCHANGED notFsVars
    /\ FsMayCall
    /\ \E complete \in BOOLEAN :
       \E path_name \in (IF complete THEN CompletePaths ELSE FolderNames) :
          LET reset == ResetResults
              made  == CreatedOnAssign(folders, reset)
              new   == IF complete THEN path_name ELSE SubFolder(reset, path_name)
              made2 == IF complete THEN made ELSE CreatedOnAssign(made, new)
          IN  /\ RESULTS' = new
              /\ FIGURES' = Slash(new, "Figures")
              /\ folders' = CreatedOnAssign(made2, Slash(new, "Figures"))
    /\ fsCalls' = Append(fsCalls, "set_results_path")
    /\ UNCHANGED fsPkg

\* FolderStructure.add_results_sub_folder(name), add_sub_folder(name) in
\* personal_tools
AddResultsSubFolder ==
    /\ UNCHANGED notFsVars
    /\ FsMayCall
    /\ \E name \in FolderNames :
          /\ RESULTS' = SubFolder(RESULTS, name)
          /\ FIGURES' = FiguresAfterAdd(SubFolder(RESULTS, name))
          /\ folders' = CreatedOnAssign(folders, SubFolder(RESULTS, name))
    /\ fsCalls' = Append(fsCalls, "add_results_sub_folder")
    /\ UNCHANGED fsPkg

\* FolderStructure.reset_results(): FIGURES is not assigned
ResetResultsCall ==
    /\ UNCHANGED notFsVars
    /\ FsMayCall
    /\ RESULTS' = ResetResults
    /\ folders' = CreatedOnAssign(folders, ResetResults)
    /\ fsCalls' = Append(fsCalls, "reset_results")
    /\ UNCHANGED <<fsPkg, FIGURES>>

\* FolderStructure.results_path(): the path returned
results_path == RESULTS

\* FolderStructure.fig_path(): the path returned
fig_path == FIGURES

\* a call of results_path(): tools creates the folder
ResultsPathCall ==
    /\ UNCHANGED notFsVars
    /\ FsMayCall
    /\ folders' = IF fsPkg = "tools" THEN MakeDirs(folders, RESULTS) ELSE folders
    /\ fsCalls' = Append(fsCalls, "results_path")
    /\ UNCHANGED <<fsPkg, RESULTS, FIGURES>>

\* a call of fig_path(): both packages create the folder
FigPathCall ==
    /\ UNCHANGED notFsVars
    /\ FsMayCall
    /\ folders' = MakeDirs(folders, FIGURES)
    /\ fsCalls' = Append(fsCalls, "fig_path")
    /\ UNCHANGED <<fsPkg, RESULTS, FIGURES>>

\* FolderStructure of tools right after its import
IdleFs ==
    /\ fsPkg = "tools"
    /\ RESULTS = InitialResults
    /\ FIGURES = Slash(InitialResults, "Figures")
    /\ folders = {PROJECT_PATH}
    /\ fsCalls = <<>>

\* FolderStructure of either package right after its import
InitFolderStructure ==
    /\ fsPkg \in {"tools", "personal_tools"}
    /\ RESULTS = InitialResults
    /\ FIGURES = Slash(InitialResults, "Figures")
    /\ folders = CreatedOnAssign({PROJECT_PATH}, InitialResults)
    /\ fsCalls = <<>>

StepFs ==
    \/ SetResultsPath
    \/ AddResultsSubFolder
    \/ ResetResultsCall
    \/ ResultsPathCall
    \/ FigPathCall

-----------------------------------------------------------------------------
(* the search for the project folder when folder_structure is imported *)

\* a path is the sequence of its parts below the root; <<>> is the root
RootPath == <<>>

\* the value None of project_path
NonePath == <<"None">>

\* pathlib: Path.parent; the parent of the root is the root
Parent(path) == IF path = RootPath THEN RootPath ELSE SubSeq(path, 1, Len(path) - 1)

\* the working directories: a chain of folders below the root
WorkingDirs == {[k \in 1..n |-> "dir"] : n \in 0..MaxDepth}

\* the files that make a folder a project folder
MarkerFiles == {"setup.py", "requirements.txt"}

\* line 16: isfile(path / 'setup.py') or isfile(path / 'requirements.txt')
HasMarker(path) ==
    "setup.py" \in pjFiles[Len(path)] \/ "requirements.txt" \in pjFiles[Len(path)]

\* pathlib: path == text for a Path and a str; PurePath.__eq__ returns
\* NotImplemented for anything that is not a path, so the result is False
PathEqualsStr(path, text) == FALSE

\* Path.cwd().drive: the empty string on POSIX
Drive == ""

\* line 14: the condition of the while loop
LoopCondition(path) == ~PathEqualsStr(path, Drive)

\* one evaluation of the loop condition and, when it holds, of the loop body
\* (lines 14-18); at the root without a marker file the body assigns the
\* root again and the loop goes on
SearchStep ==
    /\ UNCHANGED notPjVars
    /\ pjPc = "loop"
    /\ pjTurns' = 1 - pjTurns
    /\ IF ~LoopCondition(actual_path)
         THEN /\ pjPc' = "after"
              /\ UNCHANGED <<actual_path, project_path>>
         ELSE IF HasMarker(actual_path)
           THEN /\ pjPc' = "after"
                /\ project_path' = actual_path
                /\ UNCHANGED actual_path
           ELSE /\ actual_path' = Parent(actual_path)
                /\ project_path' = IF pjPkg = "tools" THEN Parent(actual_path)
                                   ELSE project_path
                /\ UNCHANGED pjPc
    /\ UNCHANGED <<pjPkg, pjFiles, pjCwd>>

\* lines 20-21: if project_path is None: raise IOError
FinishImport ==
    /\ UNCHANGED notPjVars
    /\ pjPc = "after"
    /\ pjPc' = IF project_path = NonePath THEN "IOError" ELSE "imported"
    /\ UNCHANGED <<pjPkg, pjFiles, pjCwd, actual_path, project_path, pjTurns>>

\* the module tools.folder_structure imported in a project folder
IdlePj ==
    /\ pjPkg = "tools"
    /\ pjFiles = [k \in 0..0 |-> {"setup.py"}]
    /\ pjCwd = RootPath
    /\ actual_path = RootPath
    /\ project_path = RootPath
    /\ pjPc = "imported"
    /\ pjTurns = 1

\* lines 10-11: the import starts in any working directory, with any files
\* in the folders from the root down to it
InitProjectSearch ==
    /\ pjPkg \in {"tools", "personal_tools"}
    /\ pjCwd \in WorkingDirs
    /\ pjFiles \in [0..Len(pjCwd) -> SUBSET MarkerFiles]
    /\ actual_path = pjCwd
    /\ project_path = IF pjPkg = "tools" THEN pjCwd ELSE NonePath
    /\ pjPc = "loop"
    /\ pjTurns = 0

StepPj == SearchStep \/ FinishImport

-----------------------------------------------------------------------------
(* progress bar: add_task / remove_task *)

\* line 6
COLOR_BAR_PER_LOOP == <<"blue", "red", "green", "yellow", "cyan", "magenta">>

\* faulty variant of ColourIndex: the colour follows the number of tasks
\* ever created
ColourIndexByCreated(active, created) == created

\* line 34: num_tasks = len(progress.tasks), the index into COLOR_BAR_PER_LOOP
ColourIndex(active, created) == Len(active)

\* Python list indexing with a non-negative index: IndexError past the end
ListItem(list, index) ==
    IF index < Len(list) THEN list[index + 1] ELSE "IndexError"

\* add_task(progress, text, size): line 35 raises before progress.add_task
\* is reached when there is no colour left
AddTask ==
    /\ UNCHANGED notPbVars
    /\ pbNextId < MaxTaskIds
    /\ LET num_tasks == ColourIndex(pbTasks, pbNextId)
           colour    == ListItem(COLOR_BAR_PER_LOOP, num_tasks)
       IN  IF colour = "IndexError"
             THEN /\ pbLast' = [fn |-> "add_task", before |-> Len(pbTasks),
                                outcome |-> "IndexError", colour |-> "none"]
                  /\ UNCHANGED <<pbTasks, pbNextId>>
             ELSE /\ pbTasks' = Append(pbTasks, [id |-> pbNextId, colour |-> colour])
                  /\ pbNextId' = pbNextId + 1
                  /\ pbLast' = [fn |-> "add_task", before |-> Len(pbTasks),
                                outcome |-> "ok", colour |-> colour]
    /\ UNCHANGED pbNested

\* the list without its element k
Without(list, k) == SubSeq(list, 1, k - 1) \o SubSeq(list, k + 1, Len(list))

\* remove_task(progress, task_id) of a task on the bar
RemoveTask ==
    /\ UNCHANGED notPbVars
    /\ \E k \in DOMAIN pbTasks :
          /\ pbTasks' = Without(pbTasks, k)
          /\ pbNested' = (pbNested /\ k = Len(pbTasks))
    /\ pbLast' = [fn |-> "remove_task", before |-> Len(pbTasks),
                  outcome |-> "ok", colour |-> "none"]
    /\ UNCHANGED pbNextId

\* create_progress_bar(): a bar without tasks
IdlePb ==
    /\ pbTasks = <<>>
    /\ pbNextId = 0
    /\ pbNested = TRUE
    /\ pbLast = [fn |-> "none", before |-> 0, outcome |-> "ok", colour |-> "none"]

StepPb == AddTask \/ RemoveTask

-----------------------------------------------------------------------------
(* get_list_line_styles / get_list_markers *)

\* lines 54-64: the keys of the dict, in insertion order; each key stands
\* for its item
LIST_LINE_STYLES ==
    <<"solid", "dashed", "dotted", "dashdotted", "loosely dashed",
      "densely dashed", "loosely dotted", "loosely dashdotdotted",
      "densely dashdotdotted">>

\* matplotlib's Line2D.filled_markers
FilledMarkers ==
    <<".", "o", "v", "^", "<", ">", "8", "s", "p", "*", "h", "H", "D", "d", "P", "X">>

\* line 66: list(Line2D.filled_markers)[1:]
LIST_MARKERS == Tail(FilledMarkers)

\* Python's list[:stop]; a negative stop counts from the end
SliceTo(list, stop) ==
    LET end == IF stop < 0 THEN Len(list) + stop ELSE stop
    IN  IF end <= 0 THEN <<>>
        ELSE IF end >= Len(list) THEN list
        ELSE SubSeq(list, 1, end)

\* zip(list, range(0, count)): the items paired with a number
ZipRange(list, count) ==
    IF count <= 0 THEN <<>>
    ELSE IF count >= Len(list) THEN list
    ELSE SubSeq(list, 1, count)

\* the arguments: None, or an int
NoneArg == [none |-> TRUE, val |-> 0]
IntArg(n) == [none |-> FALSE, val |-> n]
CountArgs == {NoneArg} \cup {IntArg(n) : n \in (-1)..(Len(LIST_MARKERS) + 1)}

\* get_list_line_styles(num_styles), lines 406-409
get_list_line_styles(num_styles) ==
    IF num_styles.none \/ num_styles.val > Len(LIST_LINE_STYLES)
      THEN LIST_LINE_STYLES
      ELSE ZipRange(LIST_LINE_STYLES, num_styles.val)

\* get_list_markers(num_markers), lines 420-423
get_list_markers(num_markers) ==
    IF num_markers.none \/ num_markers.val > Len(LIST_MARKERS)
      THEN LIST_MARKERS
      ELSE SliceTo(LIST_MARKERS, num_markers.val - 1)

PlCalled(fn, arg, res) ==
    /\ Len(plCalls) < MaxPlCalls
    /\ plCalls' = Append(plCalls, [fn |-> fn, arg |-> arg])
    /\ plOut' = Append(plOut, res)

GetListLineStyles ==
    /\ UNCHANGED notPlVars
    /\ \E arg \in CountArgs :
          PlCalled("get_list_line_styles", arg, get_list_line_styles(arg))

GetListMarkers ==
    /\ UNCHANGED notPlVars
    /\ \E arg \in CountArgs :
          PlCalled("get_list_markers", arg, get_list_markers(arg))

\* no call made
IdlePl ==
    /\ plCalls = <<>>
    /\ plOut = <<>>

StepPl == GetListLineStyles \/ GetListMarkers

-----------------------------------------------------------------------------
(* Specifications: one per subsystem, the other subsystems stay idle *)

InitPar == InitCpuParallel /\ IdleIO /\ IdleCv /\ IdleHx /\ IdleDf /\ IdleDb /\ IdleDd /\ IdleFs /\ IdlePj /\ IdlePb /\ IdlePl

NextPar == StepPar

SpecPar == InitPar /\ [][NextPar]_vars

\* the processes are scheduled and every task terminates
SpecParFair ==
    /\ SpecPar
    /\ WF_vars(Caller)
    /\ WF_vars(Workers)

InitIO == InitLoadSave /\ InitCpuParallel /\ IdleCv /\ IdleHx /\ IdleDf /\ IdleDb /\ IdleDd /\ IdleFs /\ IdlePj /\ IdlePb /\ IdlePl

NextIO == StepIO

SpecIO == InitIO /\ [][NextIO]_vars

InitCv == InitConversions /\ InitCpuParallel /\ IdleIO /\ IdleHx /\ IdleDf /\ IdleDb /\ IdleDd /\ IdleFs /\ IdlePj /\ IdlePb /\ IdlePl

NextCv == StepCv

SpecCv == InitCv /\ [][NextCv]_vars

InitHx == InitBinHex /\ InitCpuParallel /\ IdleIO /\ IdleCv /\ IdleDf /\ IdleDb /\ IdleDd /\ IdleFs /\ IdlePj /\ IdlePb /\ IdlePl

NextHx == StepHx

SpecHx == InitHx /\ [][NextHx]_vars

InitDf == InitDataFrame /\ InitCpuParallel /\ IdleIO /\ IdleCv /\ IdleHx /\ IdleDb /\ IdleDd /\ IdleFs /\ IdlePj /\ IdlePb /\ IdlePl

NextDf == StepDf

SpecDf == InitDf /\ [][NextDf]_vars

InitDb == InitDecibel /\ InitCpuParallel /\ IdleIO /\ IdleCv /\ IdleHx /\ IdleDf /\ IdleDd /\ IdleFs /\ IdlePj /\ IdlePb /\ IdlePl

NextDb == StepDb

SpecDb == InitDb /\ [][NextDb]_vars

InitDd == IdleDd /\ InitCpuParallel /\ IdleIO /\ IdleCv /\ IdleHx /\ IdleDf /\ IdleDb /\ IdleFs /\ IdlePj /\ IdlePb /\ IdlePl

NextDd == StepDd

SpecDd == InitDd /\ [][NextDd]_vars

InitFs == InitFolderStructure /\ InitCpuParallel /\ IdleIO /\ IdleCv /\ IdleHx /\ IdleDf /\ IdleDb /\ IdleDd /\ IdlePj /\ IdlePb /\ IdlePl

NextFs == StepFs

SpecFs == InitFs /\ [][NextFs]_vars

InitPj == InitProjectSearch /\ InitCpuParallel /\ IdleIO /\ IdleCv /\ IdleHx /\ IdleDf /\ IdleDb /\ IdleDd /\ IdleFs /\ IdlePb /\ IdlePl

NextPj == StepPj

SpecPj == InitPj /\ [][NextPj]_vars

\* the interpreter keeps running the import
SpecPjFair == SpecPj /\ WF_vars(SearchStep) /\ WF_vars(FinishImport)

InitPb == IdlePb /\ InitCpuParallel /\ IdleIO /\ IdleCv /\ IdleHx /\ IdleDf /\ IdleDb /\ IdleDd /\ IdleFs /\ IdlePj /\ IdlePl

NextPb == StepPb

SpecPb == InitPb /\ [][NextPb]_vars

InitPl == IdlePl /\ InitCpuParallel /\ IdleIO /\ IdleCv /\ IdleHx /\ IdleDf /\ IdleDb /\ IdleDd /\ IdleFs /\ IdlePj /\ IdlePb

NextPl == StepPl

SpecPl == InitPl /\ [][NextPl]_vars

-----------------------------------------------------------------------------
(* Claims about CpuParallel *)

\* the tasks that were submitted for element i of args
TasksOfArg(i) == {t \in DOMAIN tasks : tasks[t].arg = i}

\* element i of args has a task and it returned
ArgSucceeded(i) == \E t \in TasksOfArg(i) : tasks[t].state = "ok"

Positions(s, x) == {p \in DOMAIN s : s[p] = x}

\* C1: when run_parallelization returns, the results of any two elements of
\* args whose tasks both succeeded are in the returned list, and the result
\* of the earlier element comes before the result of the later one, whatever
\* the order in which the workers finished.
C1_SubmissionOrder ==
    outcome = "returned" =>
        \A i, j \in DOMAIN args :
            (i < j /\ ArgSucceeded(i) /\ ArgSucceeded(j)) =>
                /\ Positions(results, i) # {}
                /\ Positions(results, j) # {}
                /\ \A p \in Positions(results, i), q \in Positions(results, j) : p < q

\* C1 witness: a call returned two results although the later task finished
\* first.
C1_Witness ==
    /\ outcome = "returned"
    /\ overtaken
    /\ \E i, j \in DOMAIN args : i < j /\ ArgSucceeded(i) /\ ArgSucceeded(j)

\* C2: when run_parallelization returns, the returned list holds exactly the
\* results of the tasks that succeeded, and its length is the number of
\* elements of args minus the number of failed tasks.
C2_FailedTasksOmitted ==
    outcome = "returned" =>
        /\ Range(results) = {tasks[t].arg : t \in TaskStates({"ok"})}
        /\ Len(results) = Len(args) - Cardinality(TaskStates({"failed"}))

\* C3: at every moment at most max_workers tasks are executing, and during a
\* call max_workers is the number of cores get_num_cores() returns, the value
\* _NUM_CORES had when the call started.
C3_BoundedPool ==
    /\ Cardinality(Running) <= maxWorkers
    /\ pc # "idle" => maxWorkers = get_num_cores

\* C3 witness: every worker is busy while submitted tasks are still waiting.
C3_Witness ==
    /\ pc # "idle"
    /\ Cardinality(Running) = maxWorkers
    /\ TaskStates({"pending"}) # {}

\* every element of args that is a dict or a tuple has a task, and every task
\* has finished
AllTasksRan ==
    /\ \A i \in DOMAIN args : args[i] \in {"dict", "tuple"} => TasksOfArg(i) # {}
    /\ Finished = DOMAIN tasks

\* C4: no cancellation.  While results are collected and when the call has
\* returned, every submitted task has finished (returned or raised), whether
\* or not other tasks raised; and a call that was started ends.
C4_NoCancellation ==
    /\ []((pc = "collect" \/ outcome = "returned") => AllTasksRan)
    /\ (pc # "idle") ~> (pc = "idle")

\* C4 witness: a call returned although its first task raised; a later task
\* returned its result.
C4_Witness ==
    /\ outcome = "returned"
    /\ Len(tasks) >= 2
    /\ tasks[1].state = "failed"
    /\ \E t \in DOMAIN tasks : t > 1 /\ tasks[t].state = "ok"
    /\ results # <<>>

-----------------------------------------------------------------------------
(* Claims about load / save *)

\* the extensions the if-chain of a package has a branch for, with the codec
\* of the branch
CodecOf(pkg) ==
    LET common == {<<Dot(S_json), "json">>, <<Dot(S_csv), "csv">>, <<Dot(S_mat), "mat">>,
                   <<Dot(S_npy), "npy">>, <<Dot(S_npz), "npy">>}
    IN  IF pkg = "tools" THEN common
        ELSE common \cup {<<Dot(S_xlsx), "excel">>, <<Dot(S_xls), "excel">>,
                          <<Dot(S_ods), "excel">>, <<Dot(S_txt), "txt">>,
                          <<Dot(S_pickle), "pickle">>}

\* C5: load and save take the branch of the extension (final suffix) of the
\* path, and for a path whose extension has no branch they raise TypeError
\* and do not open the file.
C5_DispatchOnExtension ==
    ioCall # <<>> =>
        LET ext   == PathSuffix(ioPath)
            known == {e \in CodecOf(ioCall[1]) : e[1] = ext}
        IN  IF known # {}
              THEN \E e \in known : ioCodec = e[2]
              ELSE ioCodec = "TypeError" /\ ioFile = "none"

-----------------------------------------------------------------------------
(* Claims about the conversions *)

\* C6: wavelength2frequency and frequency2wavelength raise an error when the
\* argument (any element of an ndarray argument) is zero or negative, and
\* return c divided by the argument when it is strictly positive.
C6_RaiseOnNonPositive ==
    \A k \in DOMAIN cvCall :
        IF \E e \in Elements(CvArgOf(k)) : e = F64Zero \/ F64Less(e, F64Zero)
          THEN cvOut[k].raised \in {"ZeroDivisionError", "ValueError"}
          ELSE cvOut[k] = CDividedBy(CvArgOf(k))

\* both functions of research_tools were called, one on the result of the other
CvRoundTrip ==
    /\ Len(cvCall) = 2
    /\ cvCall[1][1] = "research_tools"
    /\ cvOut[2].raised = "none"

-----------------------------------------------------------------------------
(* Claims about reduce_df_size *)

\* the call left the values of column k as they were
ValuesKept(k) == df[k].vals = dfOrig[k].vals

\* C7 as stated: reduce_df_size changes no value of any column.
C7_NoValueChanges ==
    dfCall # "none" => \A k \in DOMAIN dfOrig : ValuesKept(k)

\* C7 amended: reduce_df_size changes no value of an object or an int64
\* column; a float64 column is left as it is, or it becomes float32 with every
\* value replaced by the nearest float32, at most 5e-4 away.
C7_ValuesKeptButFloat32Rounding ==
    dfCall # "none" =>
        /\ DOMAIN df = DOMAIN dfOrig
        /\ \A k \in DOMAIN dfOrig :
              IF dfOrig[k].dtype \in {"object", "int64"} THEN ValuesKept(k)
              ELSE \/ df[k] = dfOrig[k]
                   \/ /\ df[k].dtype = "float32"
                      /\ DOMAIN df[k].vals = DOMAIN dfOrig[k].vals
                      /\ \A r \in DOMAIN dfOrig[k].vals :
                            /\ df[k].vals[r] = RoundToFloat32(dfOrig[k].vals[r])
                            /\ Abs(df[k].vals[r] - dfOrig[k].vals[r]) * 10000 <= 5 * 4096

\* C7 witness: a float64 column was narrowed to float32 and a value of it
\* changed.
C7_Witness ==
    /\ dfCall # "none"
    /\ \E k \in DOMAIN df :
          /\ dfOrig[k].dtype = "float64"
          /\ df[k].dtype = "float32"
          /\ ~ValuesKept(k)

-----------------------------------------------------------------------------
(* Claims about binary_to_hex / hex_to_binary *)

\* the two calls made were f1 then f2
RoundTrip(f1, f2) ==
    /\ Len(hxOps) = 2
    /\ hxOps[1].fn = f1
    /\ hxOps[2].fn = f2

\* both calls were made with same_length=True
BothSameLength == hxOps[1].same /\ hxOps[2].same

\* C8: the round trips preserve the numeric value, for either setting of
\* same_length in either call: binary -> hex -> binary gives a string with the
\* value of the first, read in base 2, and hex -> binary -> hex one with the
\* value of the first, read in base 16.
C8_RoundTripValue ==
    /\ RoundTrip("binary_to_hex", "hex_to_binary") =>
          PyInt(hxStr[3], 2) = PyInt(hxStr[1], 2)
    /\ RoundTrip("hex_to_binary", "binary_to_hex") =>
          PyInt(hxStr[3], 16) = PyInt(hxStr[1], 16)

\* C8 witness: a binary round trip that returned other digits than it was
\* given, and of a value that needs two hexadecimal digits.
C8_Witness ==
    /\ RoundTrip("binary_to_hex", "hex_to_binary")
    /\ hxStr[3] # hxStr[1]
    /\ PyInt(hxStr[1], 2) > 16

\* C9 as stated: with same_length=True binary -> hex -> binary returns the
\* string it was given, for a binary string of any length.
C9_BinaryRoundTripAnyLength ==
    (RoundTrip("binary_to_hex", "hex_to_binary") /\ BothSameLength) =>
        hxStr[3] = hxStr[1]

\* C9 amended: with same_length=True binary -> hex -> binary returns the
\* string it was given (leading zeros kept) when the number of its digits is
\* a multiple of 4.
C9_BinaryRoundTripMultipleOf4 ==
    (RoundTrip("binary_to_hex", "hex_to_binary") /\ BothSameLength
        /\ Len(hxStr[1]) % 4 = 0) =>
        hxStr[3] = hxStr[1]

\* C9 witness: a round trip of eight binary digits that start with zeros.
C9_Witness ==
    /\ RoundTrip("binary_to_hex", "hex_to_binary") /\ BothSameLength
    /\ Len(hxStr[1]) = 8
    /\ SubSeq(hxStr[1], 1, 5) = <<"0", "0", "0", "0", "0">>
    /\ hxStr[3] = hxStr[1]

\* C10: with same_length=True hex -> binary -> hex returns the string it was
\* given in lower case, with as many digits, and the binary string in between
\* has four digits per hexadecimal digit.
C10_HexRoundTrip ==
    (RoundTrip("hex_to_binary", "binary_to_hex") /\ BothSameLength) =>
        /\ Len(hxStr[3]) = Len(hxStr[1])
        /\ hxStr[3] = Lower(hxStr[1])
        /\ Len(hxStr[2]) = 4 * Len(hxStr[1])

\* C10 witness: a round trip of two hexadecimal digits, a zero and an
\* upper-case letter.
C10_Witness ==
    /\ RoundTrip("hex_to_binary", "binary_to_hex") /\ BothSameLength
    /\ hxStr[1] = <<"0", "B">>
    /\ hxStr[3] = <<"0", "b">>

-----------------------------------------------------------------------------
(* Claims about the dB conversions *)

\* dB2lin was called on what lin2dB of the same package returned
DbRoundTrip ==
    /\ Len(dbOps) = 2
    /\ dbOps[1][2] = "lin2dB"
    /\ dbOps[2][2] = "dB2lin"
    /\ dbOut[2].raised = "none"

\* C11 as claimed: dB2lin(lin2dB(x)) == x for every x > 0.
C11_RoundTripExact ==
    DbRoundTrip => dbOut[2].vals = dbIn.vals

\* C11: dB2lin(lin2dB(x)) equals x up to the rounding of the floats: every
\* element of the result is within a relative error of 10^-13 of the element
\* it came from.
C11_RoundTripWithinRounding ==
    DbRoundTrip =>
        /\ Len(dbOut[2].vals) = Len(dbIn.vals)
        /\ \A k \in DOMAIN dbIn.vals : RelClose(dbOut[2].vals[k], dbIn.vals[k], 13)

\* C11 witness: the round trip of the float 7.0 came back as another float.
C11_Witness ==
    /\ DbRoundTrip
    /\ dbIn = Value("float", 0, <<F64FromInt(7)>>)
    /\ dbOut[2].vals # dbIn.vals

\* snr_dB_sum was called with n >= 1 times the same SNR
SnrOfEqual ==
    /\ dbOps = <<<<"research_tools", "snr_dB_sum">>>>
    /\ dbIn.vals # <<>>

-----------------------------------------------------------------------------
(* Claims about the default parameter dicts *)

\* the last call went through update_default_dict
DdUpdated == ddCall.default \in DefaultDicts

\* C14: update_default_dict(default_dict, new_dict) returns a newly created
\* dict holding the union of the keys, with new_dict's value for every key of
\* new_dict, and leaves both inputs unchanged; so every module-level default
\* dict keeps its initial content after any sequence of save, load and
\* set_legend calls.
C14_DefaultsNeverMutated ==
    /\ \A d \in DefaultDicts : heap[d] = InitialDefaults[d]
    /\ DdUpdated =>
          /\ ddCall.ref \notin DefaultDicts \cup {"kwargs"}
          /\ DOMAIN heap[ddCall.ref] = DOMAIN ddCall.before \cup DOMAIN ddCall.kwargs
          /\ \A k \in DOMAIN heap[ddCall.ref] :
                heap[ddCall.ref][k] = IF k \in DOMAIN ddCall.kwargs
                                        THEN ddCall.kwargs[k]
                                        ELSE ddCall.before[k]
          /\ heap[ddCall.default] = ddCall.before
          /\ heap["kwargs"] = ddCall.kwargs

\* C14 witness: save to a .csv file with index=True and ncol=4 passed
\* index=True on, next to a key the default dict does not have.
C14_Witness ==
    /\ ddCall.fn = "save"
    /\ ddCall.default = "SAVE_DEFAULT_CSV_PARAMS"
    /\ ddCall.kwargs = [index |-> "True", ncol |-> "4"]
    /\ heap[ddCall.ref] = [index |-> "True", ncol |-> "4"]
    /\ heap["SAVE_DEFAULT_CSV_PARAMS"] = [index |-> "False"]

-----------------------------------------------------------------------------
(* Claims about set_num_cores *)

\* set_num_cores is given a number larger than cpu_count()
SetAboveCpuCount ==
    \E v \in NumCoresInputs :
        /\ ~InvalidType(v)
        /\ ValidatedNumCores(v) > CpuCount
        /\ SetNumCores(v)

\* C15 as claimed: after set_num_cores was called with a number larger than
\* cpu_count(), get_num_cores() is cpu_count(), whatever was set before.
C15_AllCoresAfterTooLarge ==
    [][SetAboveCpuCount => get_num_cores' = CpuCount]_vars

-----------------------------------------------------------------------------
(* Claims about FolderStructure *)

\* C16 as claimed: after any sequence of set_results_path,
\* add_results_sub_folder / add_sub_folder and reset_results calls,
\* fig_path() == results_path() / 'Figures'.
C16_FiguresInsideResults == fig_path = Slash(results_path, "Figures")

-----------------------------------------------------------------------------
(* Claims about the types the dB conversions return *)

\* the argument of call k
DbArgOf(k) == IF k = 1 THEN dbIn ELSE dbOut[k - 1]

\* C17 as claimed: lin2dB, lin2dBm, dB2lin and dBm2lin of research_tools
\* maintain the input type: a float gives a float, a list a list of the same
\* length, an ndarray an ndarray of the same shape.
C17_InputTypeMaintained ==
    \A k \in DOMAIN dbOps :
        (/\ dbOps[k][1] = "research_tools"
         /\ dbOps[k][2] \in {"lin2dB", "lin2dBm", "dB2lin", "dBm2lin"}
         /\ DbArgOf(k).kind \in {"float", "list", "ndarray"})
        => /\ dbOut[k].raised = "none"
           /\ dbOut[k].kind = DbArgOf(k).kind
           /\ dbOut[k].rank = DbArgOf(k).rank
           /\ Len(dbOut[k].vals) = Len(DbArgOf(k).vals)

-----------------------------------------------------------------------------
(* Claims about the project folder search *)

\* the folders from the working directory up to the root that hold a
\* setup.py or a requirements.txt
ProjectFolders == {k \in 0..Len(pjCwd) : pjFiles[k] # {}}

\* C18 as claimed: the search terminates for every working directory: it
\* ends at the first folder, going up from the working directory, that holds
\* setup.py or requirements.txt, and raises IOError when no folder up to the
\* root holds one.
C18_SearchTerminates ==
    <>(\/ /\ pjPc = "imported"
          /\ ProjectFolders # {}
          /\ \A k \in ProjectFolders : k <= Len(project_path)
          /\ Len(project_path) \in ProjectFolders
       \/ /\ pjPc = "IOError"
          /\ ProjectFolders = {})

-----------------------------------------------------------------------------
(* Claims about the progress bar *)

\* C19: add_task succeeds whenever fewer than 6 tasks are on the progress
\* bar (removed tasks do not count) and fails only with 6 on it; the new task
\* gets COLOR_BAR_PER_LOOP[k], k the number of tasks on the bar before the
\* call; and while tasks are removed in reverse order of creation the tasks on
\* the bar have pairwise different colours.
C19_ColourPerActiveTask ==
    /\ pbLast.fn = "add_task" =>
          /\ pbLast.outcome = "ok" <=> pbLast.before < 6
          /\ pbLast.outcome = "ok" =>
                /\ pbLast.colour = COLOR_BAR_PER_LOOP[pbLast.before + 1]
                /\ pbTasks[Len(pbTasks)].colour = pbLast.colour
                /\ Len(pbTasks) = pbLast.before + 1
    /\ Len(pbTasks) <= 6
    /\ pbNested =>
          \A i, j \in DOMAIN pbTasks :
              i # j => pbTasks[i].colour # pbTasks[j].colour

\* C19 witness: a sixth task was added, in magenta, to a bar on which tasks
\* had been removed before, always the newest one.
C19_Witness ==
    /\ pbLast = [fn |-> "add_task", before |-> 5, outcome |-> "ok", colour |-> "magenta"]
    /\ pbNested
    /\ pbNextId > Len(pbTasks)
    /\ Len(pbTasks) = 6

-----------------------------------------------------------------------------
(* Claims about get_list_markers and get_list_line_styles *)

\* the module-level list a function takes its entries from
ListOf(fn) == IF fn = "get_list_markers" THEN LIST_MARKERS ELSE LIST_LINE_STYLES

\* C20 as claimed: get_list_markers(n) returns exactly the first n markers
\* of LIST_MARKERS for 1 <= n <= len(LIST_MARKERS) and the whole list when n
\* is None or larger than the list; likewise get_list_line_styles(n) with
\* LIST_LINE_STYLES.
C20_FirstEntries ==
    \A k \in DOMAIN plCalls :
        LET whole == ListOf(plCalls[k].fn)
            n     == plCalls[k].arg
        IN  /\ (n.none \/ n.val > Len(whole)) => plOut[k] = whole
            /\ (~n.none /\ 1 <= n.val /\ n.val <= Len(whole)) =>
                  plOut[k] = SubSeq(whole, 1, n.val)

-----------------------------------------------------------------------------
(* Claims about the tasks run_parallelization submits *)

\* C21 as claimed: run_parallelization submits exactly one task per element
\* of args, whatever the type of the element, a dict as keyword arguments and
\* a tuple as the single positional argument; no element is skipped, no task
\* is submitted, awaited or reported twice, and the returned list never has
\* more entries than args.
C21_OneTaskPerElement ==
    /\ pc = "submit" =>
          /\ pendingExc = "none"
          /\ Len(tasks) = cursor - 1
          /\ futureList = [k \in 1..(cursor - 1) |-> k]
    /\ outcome = "returned" =>
          /\ Len(tasks) = Len(args)
          /\ \A k \in DOMAIN tasks :
                /\ tasks[k].arg = k
                /\ tasks[k].form = IF args[k] = "dict" THEN "kwargs" ELSE "positional"
          /\ futureList = [k \in DOMAIN args |-> k]
          /\ Len(results) <= Len(args)

-----------------------------------------------------------------------------
(* Claims about the validation done by set_num_cores *)

\* n is an integer nearest to the float q/4
NearestInteger(n, q) == 4 * n - q \in (-2)..2

\* what set_num_cores(v) has to leave behind
NumCoresValidated(v) ==
    /\ v.type = "float" =>
          \E n \in (-3)..(CpuCount + 3) :
             /\ NearestInteger(n, v.val)
             /\ LET new == IF n = 0 THEN 1 ELSE n
                IN  new <= CpuCount => outcome' = "set" /\ get_num_cores' = new
    /\ v.type \notin {"int", "float"} =>
          outcome' = "TypeError" /\ get_num_cores' = get_num_cores

\* C22: set_num_cores with a float argument stores the argument rounded to
\* the nearest integer, a rounded 0 being replaced by 1 (when the result does
\* not exceed cpu_count()); with an argument that is neither an int nor a
\* float it raises TypeError and the stored number of cores stays as it was.
\* (set_num_cores is called and returns between two calls of run_parallelization.)
C22_FloatRoundedElseTypeError ==
    [][pc = "idle" /\ pc' = "idle" =>
          \A v \in NumCoresInputs : SetNumCores(v) => NumCoresValidated(v)]_vars

\* set_num_cores(0.5) was called: the float was rounded to 0 and 1 was stored
C22_Witness ==
    /\ outcome = "set"
    /\ printed = <<1, 2>>
    /\ get_num_cores = 1

-----------------------------------------------------------------------------
(* Claims about the integer type reduce_df_size chooses *)

\* the limbs of v from the i-th on are all x
LimbsFrom(v, i, x) == \A j \in i..4 : v[j] = x

\* the int64 value v is inside the value range of the integer type t
Holds(v, t) ==
    IF t = "uint8" THEN v[1] <= 255 /\ LimbsFrom(v, 2, 0)
    ELSE IF t = "uint16" THEN LimbsFrom(v, 2, 0)
    ELSE IF t = "uint32" THEN LimbsFrom(v, 3, 0)
    ELSE IF t = "uint64" THEN v[4] < 32768
    ELSE IF t = "int8"
      THEN \/ v[1] <= 127 /\ LimbsFrom(v, 2, 0)
           \/ v[1] >= 65536 - 128 /\ LimbsFrom(v, 2, 65535)
    ELSE IF t = "int16"
      THEN \/ v[1] < 32768 /\ LimbsFrom(v, 2, 0)
           \/ v[1] >= 32768 /\ LimbsFrom(v, 2, 65535)
    ELSE IF t = "int32"
      THEN \/ v[2] < 32768 /\ LimbsFrom(v, 3, 0)
           \/ v[2] >= 32768 /\ LimbsFrom(v, 3, 65535)
    ELSE t = "int64"

\* every value of the column is inside the value range of t
HoldsColumn(col, t) == \A r \in DOMAIN col.vals : Holds(col.vals[r], t)

\* C23: for every int64 column reduce_df_size chooses the narrowest integer
\* type that holds every value of the column, a signed type when the column
\* minimum is negative and an unsigned type otherwise; no value wraps around
\* or overflows in the chosen type.
C23_NarrowestIntegerType ==
    dfCall # "none" =>
        \A k \in DOMAIN dfOrig :
            dfOrig[k].dtype = "int64" =>
                /\ df[k].dtype \in
                      (IF \E r \in DOMAIN dfOrig[k].vals : ~Holds(dfOrig[k].vals[r], "uint64")
                         THEN Range(SignedTypes) ELSE Range(UnsignedTypes))
                /\ HoldsColumn(dfOrig[k], df[k].dtype)
                /\ \A t \in Range(SignedTypes) \cup Range(UnsignedTypes) :
                      HoldsColumn(dfOrig[k], t) => ItemSize(df[k].dtype) <= ItemSize(t)
                /\ ValuesKept(k)

\* C23 witness: an int64 column with a negative value was narrowed to a
\* signed type of two bytes, which holds -129 while int8 does not.
C23_Witness ==
    /\ dfCall # "none"
    /\ \E k \in DOMAIN df :
          /\ dfOrig[k].dtype = "int64"
          /\ <<65407, 65535, 65535, 65535>> \in Range(dfOrig[k].vals)
          /\ df[k].dtype = "int16"

====
